---- MODULE Spec2Model ----
(***************************************************************************)
(* Verification model of wyrexdev/velox: the worker pool (WorkerManager),  *)
(* the two routers (FastRouter, VeloxRouter) and the request dispatcher    *)
(* with its middleware chain (VeloxServer.handleRequest,                   *)
(* VeloxRouter.executeMiddlewareChain).                                    *)
(***************************************************************************)
EXTENDS Integers, Sequences, FiniteSets, TLC

(***************************************************************************)
(* Bounds of the model.                                                    *)
(***************************************************************************)
\* config.WORKER_THREADS: the number of workers the pool is constructed with
NumWorkers == 2
\* the queue limit of executeTask; the source compares with 1000
\* (worker-manager.ts:137), the model scales the limit down
QueueLimit == 2
\* number of events (calls, timers, worker events) in one behaviour of the pool
MaxSteps == 7
\* number of router calls (addRoute, findRoute) in one behaviour
MaxRouterSteps == 4
\* number of middleware a route registers after the router-level ones
MaxUserMw == 2
MaxCalls == 3
MaxContentLen == 4

(***************************************************************************)
(* Generic helpers.                                                        *)
(***************************************************************************)
Restrict(f, S) == [x \in S |-> f[x]]

Put(f, k, v) == [x \in (DOMAIN f) \cup {k} |-> IF x = k THEN v ELSE f[x]]

Range(seq) == {seq[i] : i \in 1..Len(seq)}

(***************************************************************************)
(* WORKER POOL (src/src/workers/worker-manager.ts)                         *)
(*                                                                         *)
(* wm is the WorkerManager and what its closures hold:                     *)
(*   workers        pool.workers, the roster, in array order               *)
(*   queue          pool.queue; a queued task is [id, caller, cb] where cb *)
(*                  tells whether resolve/reject were attached to it       *)
(*   activeJobs     pool.activeJobs: task id -> [worker, caller]           *)
(*   isShuttingDown                                                        *)
(*   timers         the pending task timers set by assignTask, each the    *)
(*                  closure [caller, id] of its callback                   *)
(*   restartTimers  number of pending 1000 ms timers set by restartWorker  *)
(*   inbox          the task messages posted to workers and not yet        *)
(*                  answered, each [worker, id, caller]: the receiver, the *)
(*                  requestId and, for the formulas, the caller whose      *)
(*                  assignment posted it                                   *)
(*   promise        caller -> state of the promise executeTask returned to *)
(*                  it, "pending" | "settled"; callers are numbered in the *)
(*                  order of their calls                                   *)
(*   settledNow     the settlements [caller, outcome] the latest handler   *)
(*                  made: "resolved", or the error it rejected with        *)
(*   shutdownWait   the workers whose exit shutdown() is still awaiting    *)
(*   shutdownPhase  "no" | "waiting" | "done": position of shutdown()      *)
(* life is the sequence of the worker threads ever created, each "alive",  *)
(* "errored" (its 'exit' event is still to come) or "dead"; steps counts   *)
(* the events of the behaviour.                                            *)
(***************************************************************************)
VARIABLES wm, life, steps
\* the health check in progress (see HEALTH CHECK below)
VARIABLES hc

\* the routers (see ROUTERS below)
VARIABLES fast, velox, found, rsteps
VARIABLES rq
\* the server factory (see SERVER FACTORY below)
VARIABLES factory
\* a router and the server it is mounted on (see MOUNTING below)
VARIABLES mnt
\* the latest multipart body parsed (see MULTIPART below)
VARIABLES mp
\* the rate limiter (see RATE LIMITER below)
VARIABLES rl
\* the validation of an uploaded file (see FILE VALIDATION below)
VARIABLES fv

poolVars == <<wm, life, steps, hc, factory, mnt, mp, rl, fv>>
routerVars == <<fast, velox, found, rsteps>>
dispatchVars == <<rq>>
vars == <<poolVars, routerVars, dispatchVars>>

\* every event submits at most one task and creates at most one worker
Callers == 1..MaxSteps
NoWorker == 0

\* Promise.resolve / Promise.reject: only the first call settles the promise
Settle(s, c, outcome) ==
    IF s.promise[c] = "pending"
    THEN [s EXCEPT !.promise[c] = "settled",
                   !.settledNow = @ \cup {[caller |-> c, outcome |-> outcome]}]
    ELSE s

RECURSIVE SettleAll(_, _, _)
SettleAll(s, cs, outcome) ==
    IF cs = {} THEN s
    ELSE LET c == CHOOSE x \in cs : TRUE
         IN  SettleAll(Settle(s, c, outcome), cs \ {c}, outcome)

\* a handler starts: the settlements of the previous one are forgotten
Begin(s) == [s EXCEPT !.settledNow = {}]

\* some job of the active-job map references worker w
IsWorkerBusy(s, w) == \E id \in DOMAIN s.activeJobs : s.activeJobs[id].worker = w

\* getAvailableWorker returning the first worker of the roster, busy or not
getFirstWorker(s) ==
    IF Len(s.workers) > 0 THEN s.workers[1] ELSE NoWorker

\* getAvailableWorker: the first worker of the roster no active job references
getAvailableWorker(s) ==
    IF \E i \in 1..Len(s.workers) : ~IsWorkerBusy(s, s.workers[i])
    THEN s.workers[CHOOSE i \in 1..Len(s.workers) :
                     /\ ~IsWorkerBusy(s, s.workers[i])
                     /\ \A j \in 1..(i - 1) : IsWorkerBusy(s, s.workers[j])]
    ELSE NoWorker

\* assignTask: start the timer, record the job, post the message
assignTask(s, w, id, c) ==
    [s EXCEPT !.timers = @ \cup {[caller |-> c, id |-> id]},
              !.activeJobs = Put(@, id, [worker |-> w, caller |-> c]),
              !.inbox = @ \cup {[worker |-> w, id |-> id, caller |-> c]}]

\* processQueue popping the last task of the queue
RECURSIVE processQueueLifo(_)
processQueueLifo(s) ==
    IF Len(s.queue) = 0 THEN s
    ELSE LET w == getAvailableWorker(s) IN
         IF w = NoWorker THEN s
         ELSE LET task == s.queue[Len(s.queue)]
                  t == [s EXCEPT !.queue = SubSeq(@, 1, Len(@) - 1)]
              IN  IF task.cb
                  THEN processQueueLifo(assignTask(t, w, task.id, task.caller))
                  ELSE processQueueLifo(t)

\* processQueue: while the queue is non-empty and a worker is available,
\* shift the head; assign it when it carries resolve and reject
RECURSIVE processQueue(_)
processQueue(s) ==
    IF Len(s.queue) = 0 THEN s
    ELSE LET w == getAvailableWorker(s) IN
         IF w = NoWorker THEN s
         ELSE LET task == Head(s.queue)
                  t == [s EXCEPT !.queue = Tail(@)]
              IN  IF task.cb
                  THEN processQueue(assignTask(t, w, task.id, task.caller))
                  ELSE processQueue(t)

\* executeTask: the body of the promise executor
executeTask(s, id, c) ==
    LET s0 == [s EXCEPT !.promise = Append(@, "pending")]
        w == getAvailableWorker(s0)
    IN  IF w # NoWorker
        THEN assignTask(s0, w, id, c)
        ELSE LET pushed == [s0 EXCEPT !.queue =
                               Append(@, [id |-> id, caller |-> c, cb |-> FALSE])]
             IN  IF Len(pushed.queue) > QueueLimit
                 THEN Settle(pushed, c, "QueueFull")
                 ELSE [pushed EXCEPT !.queue[Len(pushed.queue)].cb = TRUE]

\* taskTimeout without its activeJobs.delete
taskTimeoutKeepingJob(s, tm) ==
    Settle([s EXCEPT !.timers = @ \ {tm}], tm.caller, "Timeout")

\* the callback of the timer assignTask sets
taskTimeout(s, tm) ==
    Settle([s EXCEPT !.timers = @ \ {tm},
                     !.activeJobs = Restrict(@, DOMAIN @ \ {tm.id})],
           tm.caller, "Timeout")

\* clearTimeout(job.timeout) for the job stored under id
ClearJobTimer(s, id) ==
    [s EXCEPT !.timers = {tm \in @ : tm.caller # s.activeJobs[id].caller}]

\* handleWorkerResponse without its clearTimeout
handleWorkerResponseKeepingTimer(s, w, requestId, success) ==
    IF requestId = 0 THEN s
    ELSE IF requestId \notin DOMAIN s.activeJobs THEN s
    ELSE LET job == s.activeJobs[requestId]
             deleted == [s EXCEPT !.activeJobs = Restrict(@, DOMAIN @ \ {requestId})]
             settled == Settle(deleted, job.caller,
                               IF success THEN "resolved" ELSE "WorkerError")
         IN  processQueue(settled)

\* a variant of handleWorkerResponse whose unmatched message drains the queue
handleWorkerResponseDraining(s, w, requestId, success) ==
    IF requestId = 0 THEN processQueue(s)
    ELSE IF requestId \notin DOMAIN s.activeJobs THEN processQueue(s)
    ELSE LET job == s.activeJobs[requestId]
             cleared == ClearJobTimer(s, requestId)
             deleted == [cleared EXCEPT !.activeJobs =
                            Restrict(@, DOMAIN @ \ {requestId})]
             settled == Settle(deleted, job.caller,
                               IF success THEN "resolved" ELSE "WorkerError")
         IN  processQueue(settled)

\* handleWorkerResponse; requestId = 0 stands for a missing requestId
handleWorkerResponse(s, w, requestId, success) ==
    IF requestId = 0 THEN s
    ELSE IF requestId \notin DOMAIN s.activeJobs THEN s
    ELSE LET job == s.activeJobs[requestId]
             cleared == ClearJobTimer(s, requestId)
             deleted == [cleared EXCEPT !.activeJobs =
                            Restrict(@, DOMAIN @ \ {requestId})]
             settled == Settle(deleted, job.caller,
                               IF success THEN "resolved" ELSE "WorkerError")
         IN  processQueue(settled)

\* the loop of restartWorker without its clearTimeout
RejectJobsOfKeepingTimers(s, oldWorker) ==
    LET ids == {id \in DOMAIN s.activeJobs : s.activeJobs[id].worker = oldWorker}
        cs == {s.activeJobs[id].caller : id \in ids}
    IN  SettleAll([s EXCEPT !.activeJobs = Restrict(@, DOMAIN @ \ ids)],
                  cs, "WorkerRestarted")

\* the loop of restartWorker over the active jobs of oldWorker
RejectJobsOf(s, oldWorker) ==
    LET ids == {id \in DOMAIN s.activeJobs : s.activeJobs[id].worker = oldWorker}
        cs == {s.activeJobs[id].caller : id \in ids}
    IN  SettleAll([s EXCEPT !.timers = {tm \in @ : tm.caller \notin cs},
                            !.activeJobs = Restrict(@, DOMAIN @ \ ids)],
                  cs, "WorkerRestarted")

\* restartWorker
restartWorker(s, oldWorker) ==
    IF s.isShuttingDown THEN s
    ELSE LET removed == [s EXCEPT !.workers = SelectSeq(@, LAMBDA x : x # oldWorker)]
             rejected == RejectJobsOf(removed, oldWorker)
         IN  [rejected EXCEPT !.restartTimers = @ + 1]

\* createWorker: the new worker joins the end of the roster
createWorker(s, w) == [s EXCEPT !.workers = Append(@, w)]

\* the callback of the 1000 ms timer of restartWorker
restartTimeout(s, w) ==
    processQueue(createWorker([s EXCEPT !.restartTimers = @ - 1], w))

\* the 'exit' handler createWorker installs
onExit(s, w, code) ==
    IF ~s.isShuttingDown /\ code # 0 THEN restartWorker(s, w) ELSE s

\* shutdown(), up to its await
shutdownBegin(s) ==
    LET cs == {s.activeJobs[id].caller : id \in DOMAIN s.activeJobs}
        qs == {s.queue[i].caller : i \in {j \in 1..Len(s.queue) : s.queue[j].cb}}
    IN  SettleAll([s EXCEPT !.isShuttingDown = TRUE,
                            !.timers = {tm \in @ : tm.caller \notin cs},
                            !.activeJobs = <<>>,
                            !.queue = <<>>,
                            !.shutdownWait = Range(s.workers),
                            !.shutdownPhase = "waiting"],
                  cs \cup qs, "Shutdown")

\* the state after the constructor: initializeWorkers has created the roster
InitWM ==
    [workers |-> [i \in 1..NumWorkers |-> i],
     queue |-> <<>>,
     activeJobs |-> <<>>,
     isShuttingDown |-> FALSE,
     timers |-> {},
     restartTimers |-> 0,
     inbox |-> {},
     promise |-> <<>>,
     settledNow |-> {},
     shutdownWait |-> {},
     shutdownPhase |-> "no"]

(***************************************************************************)
(* HEALTH CHECK (WorkerManager.healthCheck)                                *)
(*                                                                         *)
(* hc is the call of healthCheck in progress:                              *)
(*   phase    "idle", "waiting" (awaiting Promise.all), "done"             *)
(*   probes   one entry per worker of the roster at the call, in roster    *)
(*            order: [worker, state], state "pending", "true" or "false"   *)
(*   result   "none", "healthy" or "unhealthy"                             *)
(* The probe of the worker at index i carries requestId health-i, which    *)
(* the model writes HealthId(i), a negative number: the ids of tasks are   *)
(* positive.                                                               *)
(***************************************************************************)
InitHealth == [phase |-> "idle", probes |-> <<>>, result |-> "none"]

HealthId(i) == 0 - i

\* healthCheck up to its await: a timer, a listener and a probe per worker
healthCheckBegin(s) ==
    [phase |-> "waiting",
     probes |-> [i \in 1..Len(s.workers) |->
                    [worker |-> s.workers[i], state |-> "pending"]],
     result |-> "none"]

\* the messageHandler listeners of healthCheck on a message of worker w
messageHandler(h, w, requestId, success) ==
    [h EXCEPT !.probes =
        [i \in 1..Len(@) |->
            IF /\ @[i].worker = w
               /\ @[i].state = "pending"
               /\ requestId = HealthId(i)
            THEN [@[i] EXCEPT !.state = IF success THEN "true" ELSE "false"]
            ELSE @[i]]]

\* healthCheck after its await
healthCheckEnd(h, s) ==
    LET healthy == Cardinality({i \in 1..Len(h.probes) : h.probes[i].state = "true"})
    IN  [h EXCEPT !.phase = "done",
                  !.result = IF healthy = Len(s.workers)
                             THEN "healthy" ELSE "unhealthy"]

\* await Promise.all(healthPromises): healthCheck continues in the microtasks
\* of the event that resolves the last probe, before any other event
awaitAll(h, s) ==
    IF /\ h.phase = "waiting"
       /\ \A i \in 1..Len(h.probes) : h.probes[i].state # "pending"
    THEN healthCheckEnd(h, s)
    ELSE h

(***************************************************************************)
(* SERVER FACTORY (createVeloxServer, VeloxServer.getInstance)             *)
(*                                                                         *)
(* factory is                                                              *)
(*   instance  the static VeloxServer.instance, NoServer while undefined   *)
(*   returned  the server the latest call of createVeloxServer returned    *)
(*   options   the options of that call                                    *)
(*   calls     the number of calls of createVeloxServer                    *)
(* An option that is not given is 0 (port) or "" (host, uploadDir): the    *)
(* constructor treats undefined, 0 and "" alike (||).                      *)
(***************************************************************************)
EnvPort == 3000

Options ==
    [port : {0, 3000, 8080},
     host : {"", "0.0.0.0", "localhost"},
     uploadDir : {"", "./uploads", "./custom-uploads"}]

NoServer == [port |-> 0, host |-> "", uploadDir |-> ""]

\* the constructor of VeloxServer, as far as port, host and uploadDir go;
\* the process runs without the PORT environment variable
VeloxServer(options) ==
    [port |-> IF options.port # 0 THEN options.port ELSE EnvPort,
     host |-> IF options.host # "" THEN options.host ELSE "0.0.0.0",
     uploadDir |-> IF options.uploadDir # "" THEN options.uploadDir ELSE "./uploads"]

\* VeloxServer.getInstance: the instance after the call
getInstance(instance, options) ==
    IF instance = NoServer THEN VeloxServer(options) ELSE instance

InitFactory ==
    [instance |-> NoServer, returned |-> NoServer,
     options |-> NoServer, calls |-> 0]

(***************************************************************************)
(* ROUTERS: FastRouter (src/unnamed/part_006) and VeloxRouter              *)
(* (src/src/core/file-handler.ts).                                         *)
(*                                                                         *)
(* A path is the sequence of its segments ("/a/b" is <<"a", "b">>); a      *)
(* route pattern is a path whose segments may be ":p" (a parameter) or "*" *)
(* (a wildcard). A handler is named by the number of the registration that *)
(* brought it. Both routers receive the same calls.                        *)
(*   fast.staticRoutes   [method, path] -> handler                         *)
(*   fast.dynamicRoutes  method -> the compiled routes in push order       *)
(*   fast.routeCache     [method, path] -> the route cached for the key    *)
(*   velox.routes, velox.routeCache  method -> the entries [path, handler] *)
(*                       in the insertion order of the object's keys       *)
(*   found               the results of the latest findRoute of each router*)
(***************************************************************************)
Methods == {"GET", "POST"}
Paths == {<<"a">>, <<"a", "b">>, <<"b", "b">>}
Patterns == {<<"a">>, <<"a", "b">>, <<":p">>, <<"a", ":p">>, <<"a", "*">>, <<"*">>}

NotFound == [handler |-> 0, params |-> <<>>]

IsParam(seg) == seg = ":p"
IsWildcard(seg) == seg = "*"

\* the regular expression addToCache / compileDynamicRoute build, applied to
\* a path: a literal segment matches itself, "([^/]+)" one segment, "(.*)" the
\* longest run of segments that lets the rest match; the result is
\* [ok, params], params being the captured groups in order
RECURSIVE Match(_, _)
Match(pattern, path) ==
    IF pattern = <<>>
    THEN [ok |-> path = <<>>, params |-> <<>>]
    ELSE IF path = <<>> THEN [ok |-> FALSE, params |-> <<>>]
    ELSE LET seg == Head(pattern) IN
         IF IsWildcard(seg)
         THEN LET ks == {k \in 1..Len(path) :
                           Match(Tail(pattern), SubSeq(path, k + 1, Len(path))).ok}
              IN  IF ks = {} THEN [ok |-> FALSE, params |-> <<>>]
                  ELSE LET k == CHOOSE x \in ks : \A y \in ks : y <= x
                           rest == Match(Tail(pattern), SubSeq(path, k + 1, Len(path)))
                       IN  [ok |-> TRUE,
                            params |-> <<SubSeq(path, 1, k)>> \o rest.params]
         ELSE IF IsParam(seg) \/ seg = Head(path)
         THEN LET rest == Match(Tail(pattern), Tail(path)) IN
              [ok |-> rest.ok,
               params |-> IF ~rest.ok THEN <<>>
                          ELSE IF IsParam(seg) THEN <<<<Head(path)>>>> \o rest.params
                          ELSE rest.params]
         ELSE [ok |-> FALSE, params |-> <<>>]

\* FastRouter.addRoute: path.includes(":") || path.includes("*")
FastIsDynamic(pattern) ==
    \E i \in 1..Len(pattern) : IsParam(pattern[i]) \/ IsWildcard(pattern[i])

FastAddRoute(r, method, pattern, handler) ==
    IF FastIsDynamic(pattern)
    THEN [r EXCEPT !.dynamicRoutes[method] =
                      Append(@, [pattern |-> pattern, handler |-> handler])]
    ELSE [r EXCEPT !.staticRoutes = Put(@, <<method, pattern>>, handler)]

\* FastRouter.cacheRoute; the source's limit is 10000 (part_006:126)
CacheLimit == 2

\* cacheRoute without its size test
cacheRouteUnbounded(r, key, route) ==
    [r EXCEPT !.routeCache = Put(@, key, route)]

\* cacheRoute evicting an entry when the cache is full
cacheRouteEvicting(r, key, route) ==
    IF Cardinality(DOMAIN r.routeCache) < CacheLimit
    THEN [r EXCEPT !.routeCache = Put(@, key, route)]
    ELSE LET old == CHOOSE k \in DOMAIN r.routeCache : TRUE
         IN  [r EXCEPT !.routeCache =
                 Put(Restrict(@, DOMAIN @ \ {old}), key, route)]

cacheRoute(r, key, route) ==
    IF Cardinality(DOMAIN r.routeCache) < CacheLimit
    THEN [r EXCEPT !.routeCache = Put(@, key, route)]
    ELSE r

\* the loop over the dynamic routes returning the last match, not the first
RECURSIVE LastDynamic(_, _)
LastDynamic(routes, path) ==
    IF routes = <<>> THEN NotFound
    ELSE LET m == Match(routes[Len(routes)].pattern, path) IN
         IF m.ok THEN [handler |-> routes[Len(routes)].handler, params |-> m.params]
         ELSE LastDynamic(SubSeq(routes, 1, Len(routes) - 1), path)

\* the first dynamic route of the list whose paramExtractor accepts the path
RECURSIVE FirstDynamic(_, _)
FirstDynamic(routes, path) ==
    IF routes = <<>> THEN NotFound
    ELSE LET m == Match(Head(routes).pattern, path) IN
         IF m.ok THEN [handler |-> Head(routes).handler, params |-> m.params]
         ELSE FirstDynamic(Tail(routes), path)

\* FastRouter.findRoute: [router, result]
FastFindRoute(r, method, path) ==
    LET key == <<method, path>> IN
    IF key \in DOMAIN r.routeCache
    THEN [router |-> r, result |-> r.routeCache[key]]
    ELSE IF key \in DOMAIN r.staticRoutes
    THEN LET route == [handler |-> r.staticRoutes[key], params |-> <<>>]
         IN  [router |-> cacheRoute(r, key, route), result |-> route]
    ELSE LET route == FirstDynamic(r.dynamicRoutes[method], path)
         IN  IF route # NotFound
             THEN [router |-> cacheRoute(r, key, route), result |-> route]
             ELSE [router |-> r, result |-> NotFound]

\* obj[key] = value on an object whose keys keep their insertion order
SetKeyAppending(entries, path, handler) ==
    Append(entries, [path |-> path, handler |-> handler])

SetKey(entries, path, handler) ==
    IF \E i \in 1..Len(entries) : entries[i].path = path
    THEN [i \in 1..Len(entries) |->
            IF entries[i].path = path
            THEN [path |-> path, handler |-> handler] ELSE entries[i]]
    ELSE Append(entries, [path |-> path, handler |-> handler])

\* VeloxRouter.addRoute with addToCache
VeloxAddRoute(r, method, pattern, handler) ==
    [r EXCEPT !.routes[method] = SetKey(@, pattern, handler),
              !.routeCache[method] = SetKey(@, pattern, handler)]

\* the methods in the order of the keys of VeloxRouter.routes
MethodOrder == <<"GET", "POST">>

\* VeloxRouter.getRoutes: the entries [method, path] of every method's routes
RECURSIVE RoutesOf(_, _)
RoutesOf(r, methods) ==
    IF methods = <<>> THEN <<>>
    ELSE [i \in 1..Len(r.routes[Head(methods)]) |->
             [method |-> Head(methods), path |-> r.routes[Head(methods)][i].path]]
         \o RoutesOf(r, Tail(methods))

getRoutes(r) == RoutesOf(r, MethodOrder)

\* the loop of VeloxRouter.findRoute over Object.entries(routeCache[method])
RECURSIVE FirstRegex(_, _)
FirstRegex(entries, path) ==
    IF entries = <<>> THEN NotFound
    ELSE LET m == Match(Head(entries).path, path) IN
         IF m.ok THEN [handler |-> Head(entries).handler, params |-> m.params]
         ELSE FirstRegex(Tail(entries), path)

\* VeloxRouter.findRoute: the entry stored under the path itself, else the
\* first entry whose regex matches
VeloxFindRoute(r, method, path) ==
    LET entries == r.routeCache[method]
        exact == {i \in 1..Len(entries) : entries[i].path = path}
    IN  IF exact # {}
        THEN [handler |-> entries[CHOOSE i \in exact : TRUE].handler,
              params |-> <<>>]
        ELSE FirstRegex(entries, path)

\* the routers after their constructors
InitFast ==
    [staticRoutes |-> <<>>,
     dynamicRoutes |-> [m \in Methods |-> <<>>],
     routeCache |-> <<>>]

InitVelox ==
    [routes |-> [m \in Methods |-> <<>>],
     routeCache |-> [m \in Methods |-> <<>>]]

(***************************************************************************)
(* MULTIPART (RequestParser.parseMultipart)                                *)
(*                                                                         *)
(* A buffer is the sequence of its bytes.  The bytes of the model are      *)
(* "CR", "LF", "-", "X" (the boundary is X), "a" (any other byte of a      *)
(* content) and the two bytes "FILE" and "FIELD", each standing for the    *)
(* header line Content-Disposition: form-data; name="f" with and without   *)
(* filename="a.txt".                                                       *)
(* mp is the latest body parsed:                                           *)
(*   kind     "file" or "field", the kind of its part; "none" at first     *)
(*   content  the bytes of the part, as the client sent them               *)
(*   body     what parseMultipart stored: [files, fields], the contents    *)
(*            stored under the part's name                                 *)
(***************************************************************************)
CRLF == <<"CR", "LF">>
Boundary == <<"X">>
ContentBytes == {"a", "CR", "LF"}

\* the contents of at most n bytes
RECURSIVE Contents(_)
Contents(n) ==
    IF n = 0 THEN {<<>>}
    ELSE Contents(n - 1) \cup
         {Append(c, b) : c \in {x \in Contents(n - 1) : Len(x) = n - 1},
                         b \in ContentBytes}

\* the body a client sends for one part: delimiter, header line, empty line,
\* content, CRLF, closing delimiter
MultipartBody(kind, content) ==
    <<"-", "-">> \o Boundary \o CRLF
    \o <<IF kind = "file" THEN "FILE" ELSE "FIELD">> \o CRLF \o CRLF
    \o content \o CRLF
    \o <<"-", "-">> \o Boundary \o <<"-", "-">> \o CRLF

\* Buffer.indexOf(pattern, from), positions counted from 1; 0 when not found
IndexOf(buffer, pattern, from) ==
    LET hits == {i \in from..(Len(buffer) - Len(pattern) + 1) :
                    SubSeq(buffer, i, i + Len(pattern) - 1) = pattern}
    IN  IF hits = {} THEN 0
        ELSE CHOOSE i \in hits : \A j \in hits : i <= j

\* the loop of splitBuffer: start is the position after the latest delimiter
RECURSIVE SplitFrom(_, _, _, _)
SplitFrom(buffer, delimiter, start, parts) ==
    LET at == IF start <= Len(buffer) THEN IndexOf(buffer, delimiter, start) ELSE 0
    IN  IF at = 0
        THEN IF start <= Len(buffer)
             THEN Append(parts, SubSeq(buffer, start, Len(buffer)))
             ELSE parts
        ELSE SplitFrom(buffer, delimiter, at + Len(delimiter),
                       IF at > start
                       THEN Append(parts, SubSeq(buffer, start, at - 1))
                       ELSE parts)

splitBuffer(buffer, delimiter) == SplitFrom(buffer, delimiter, 1, <<>>)

findHeaderEnd(part) == IndexOf(part, CRLF \o CRLF, 1)

\* cleanFileContent: drop the last byte while it is LF or CR
RECURSIVE cleanFileContent(_)
cleanFileContent(buffer) ==
    IF Len(buffer) > 0 /\ buffer[Len(buffer)] \in {"LF", "CR"}
    THEN cleanFileContent(SubSeq(buffer, 1, Len(buffer) - 1))
    ELSE buffer

\* content.replace(/\r\n$/, "") of a field
StripFinalCRLF(buffer) ==
    IF Len(buffer) >= 2 /\ SubSeq(buffer, Len(buffer) - 1, Len(buffer)) = CRLF
    THEN SubSeq(buffer, 1, Len(buffer) - 2)
    ELSE buffer

\* the loop of parseMultipart over the parts; every file passes validate()
\* (FILE_HASHING and FILE_VIRUS_SCAN are off: see FILE VALIDATION)
RECURSIVE ParseParts(_, _)
ParseParts(parts, body) ==
    IF parts = <<>> THEN body
    ELSE LET part == Head(parts)
             headerEndIndex == findHeaderEnd(part)
             headerBuffer == SubSeq(part, 1, headerEndIndex - 1)
             contentBuffer == SubSeq(part, headerEndIndex + 4, Len(part))
         IN  IF headerEndIndex = 0 THEN ParseParts(Tail(parts), body)
             ELSE IF "FILE" \in Range(headerBuffer)
             THEN ParseParts(Tail(parts),
                     [body EXCEPT !.files = Append(@, cleanFileContent(contentBuffer))])
             ELSE IF "FIELD" \in Range(headerBuffer)
             THEN ParseParts(Tail(parts),
                     [body EXCEPT !.fields = Append(@, StripFinalCRLF(contentBuffer))])
             ELSE ParseParts(Tail(parts), body)

parseMultipart(data, boundary) ==
    ParseParts(splitBuffer(data, <<"-", "-">> \o boundary),
               [files |-> <<>>, fields |-> <<>>])

InitMultipart ==
    [kind |-> "none", content |-> <<>>, body |-> [files |-> <<>>, fields |-> <<>>]]

(***************************************************************************)
(* MOUNTING (new VeloxRouter(prefix), router.get ..., server.mount)        *)
(*                                                                         *)
(* mnt is                                                                  *)
(*   router      the router created with new VeloxRouter(prefix): its      *)
(*               prefix (<<>> when none is given), routes and routeCache   *)
(*   server      the router of the server                                  *)
(*   registered  the registrations made on the router, each                *)
(*               [method, path, handler, middleware] with the path as it   *)
(*               was passed and the middleware list stored with the route  *)
(*   mounted     the routes mount stored in the server's router, each      *)
(*               [handler, middleware]                                     *)
(*   base        the basePath of the latest mount                          *)
(*   phase       "new", "router" once the router is created, "mounted"     *)
(*   n           the number of calls made                                  *)
(* A path is the sequence of its segments; joining two paths as strings is *)
(* the concatenation of their sequences.  A middleware is a number: the    *)
(* number of the call that installed it for a router-level one (use), its  *)
(* negative for the middleware passed with a route.                        *)
(***************************************************************************)
Prefixes == {<<>>, <<"api">>, <<"api", "v1">>}
RouterPaths == {<<"users">>, <<"users", ":p">>, <<"api">>}

\* the constructor of VeloxRouter
NewVeloxRouter(prefix) ==
    [prefix |-> prefix,
     middleware |-> <<>>,
     routes |-> [m \in Methods |-> <<>>],
     routeCache |-> [m \in Methods |-> <<>>]]

\* VeloxRouter.addRoute of a router with a prefix: the route is stored under
\* prefix + path
PrefixedAddRoute(r, method, path, handler) ==
    VeloxAddRoute(r, method, r.prefix \o path, handler)

\* VeloxRouter.use
use(r, middleware) == [r EXCEPT !.middleware = Append(@, middleware)]

\* the middleware list addRoute stores with a route:
\* [...this.middleware, ...middleware]
RouteMiddleware(r, middleware) == r.middleware \o middleware

\* the middleware list mount stores with a route of the mounted router:
\* [...router.middleware, ...route.middleware]
MountMiddleware(router, routeMiddleware) == router.middleware \o routeMiddleware

\* the inner loop of VeloxRouter.mount over the routes of one method
RECURSIVE MountEntries(_, _, _, _)
MountEntries(r, method, prefix, entries) ==
    IF entries = <<>> THEN r
    ELSE MountEntries(
            VeloxAddRoute(r, method, prefix \o Head(entries).path,
                          Head(entries).handler),
            method, prefix, Tail(entries))

\* the outer loop of VeloxRouter.mount over the methods
RECURSIVE MountMethods(_, _, _, _)
MountMethods(r, methods, prefix, router) ==
    IF methods = <<>> THEN r
    ELSE MountMethods(
            MountEntries(r, Head(methods), prefix, router.routes[Head(methods)]),
            Tail(methods), prefix, router)

\* VeloxRouter.mount: prefix = basePath + (router.prefix || "")
mount(r, basePath, router) ==
    MountMethods(r, MethodOrder, basePath \o router.prefix, router)

InitMount ==
    [router |-> NewVeloxRouter(<<>>), server |-> InitVelox, registered |-> {},
     mounted |-> {}, base |-> <<>>, phase |-> "new", n |-> 0]

(***************************************************************************)
(* REQUEST DISPATCH: VeloxServer.handleRequest (src/src/core/server.ts)    *)
(* and VeloxRouter.executeMiddlewareChain (src/src/core/file-handler.ts)   *)
(*                                                                         *)
(* rq is one request in the hands of handleRequest:                        *)
(*   phase        "idle" before the request, "chain" while handleRequest   *)
(*                awaits executeMiddlewareChain, "done" once it returned   *)
(*   chain        the middleware list of the resolved route, each entry    *)
(*                [name, kind]                                             *)
(*   handler      the kind of the route handler                            *)
(*   request      the request: [method, contentType, payload]              *)
(*   routed       findRoute returned a handler for the request             *)
(*   error        the error parseBody rejected with, "none" if none        *)
(*   isProduction the server's flag                                        *)
(*   index        the closure variable index of executeMiddlewareChain     *)
(*   frames       one frame per invocation of next: the invocation and the *)
(*                middleware or handler it calls; frame 1 is the           *)
(*                invocation made by executeMiddlewareChain itself, whose  *)
(*                settlement settles the chain's promise                   *)
(*   trace        the starts, advances and finishes, in order              *)
(*   status       the status written to the response, 0 while none is      *)
(*   sender       who wrote the response: "none", "chain", "dispatcher"    *)
(*   message      the message of the dispatcher's envelope                 *)
(*   metrics      metrics.requests.success / errors                        *)
(*   logged       logger.logRequest has been called                        *)
(*   unhandled    rejected promises that nobody awaits                     *)
(*                                                                         *)
(* One action is one synchronous run of JavaScript: the code from an event *)
(* or from the resumption of an await up to the next await or return.      *)
(***************************************************************************)
\* the router-level middleware of the server, in the order of installation
DefaultMiddleware ==
    <<"headers", "cors", "rateLimiter", "contentTypeValidation",
      "requestSizeLimit", "ipValidation">>

\* the default middleware that answer the request themselves and return
\* without calling next when they refuse it; headers always calls next
HaltingDefaults ==
    {i \in 1..Len(DefaultMiddleware) : DefaultMiddleware[i] # "headers"}

\* What a middleware does:
\*   fire        calls next() as a statement and returns (the default ones)
\*   halt        writes a response and returns without calling next
\*   throw       throws synchronously
\*   await       async, awaits next() and returns
\*   twice       calls next() two times
\*   asyncThrow  async, awaits some I/O and then throws
\*   nextErr     calls next(err) as a statement and returns
MwKinds == {"fire", "halt", "throw", "await", "twice", "asyncThrow", "nextErr"}

\* What a handler does: answers, throws, or does so after awaiting some I/O
HandlerKinds == {"ok", "throw", "asyncOk", "asyncReject"}

\* the body of a middleware or handler as the list of its operations
Script(kind) ==
    CASE kind = "fire"        -> <<"next", "ret">>
      [] kind = "halt"        -> <<"send", "ret">>
      [] kind = "throw"       -> <<"throw">>
      [] kind = "await"       -> <<"anext", "ret">>
      [] kind = "twice"       -> <<"next", "next", "ret">>
      [] kind = "asyncThrow"  -> <<"wait", "throw">>
      [] kind = "nextErr"     -> <<"nexterr", "ret">>
      [] kind = "ok"          -> <<"send", "ret">>
      [] kind = "asyncOk"     -> <<"wait", "send", "ret">>
      [] kind = "asyncReject" -> <<"wait", "throw">>
      [] kind = "rethrow"     -> <<"throw">>

UserChains == UNION {[1..n -> MwKinds] : n \in 0..MaxUserMw}

\* the middleware list of a route: [...this.middleware, ...middleware] of the
\* server's router for a route registered on the server, and the sub-router's
\* own list, without the server's defaults, for a route attached with mount
RouteChain(mounted, haltAt, user) ==
    LET defaults == [i \in 1..Len(DefaultMiddleware) |->
                        [name |-> DefaultMiddleware[i],
                         kind |-> IF i = haltAt THEN "halt" ELSE "fire"]]
        own == [i \in 1..Len(user) |-> [name |-> "user", kind |-> user[i]]]
    IN (IF mounted THEN <<>> ELSE defaults) \o own

\* A request, as far as the parsing of its body looks at it:
\*   method       the request method
\*   contentType  the Content-Type header: its media type and the value of
\*                its boundary= parameter, "" when it has none
\*   payload      "wellFormed", "malformed" (not of the syntax the media
\*                type announces) or "tooLarge" (more than 2 * MAX_FILE_SIZE)
BodyMethods == {"POST", "PUT", "PATCH"}

ContentTypes ==
    {[type |-> "multipart/form-data", boundary |-> "x"],
     [type |-> "multipart/form-data", boundary |-> ""],
     [type |-> "application/json", boundary |-> ""],
     [type |-> "text/plain", boundary |-> ""]}

Payloads == {"wellFormed", "malformed", "tooLarge"}

NoRequest ==
    [method |-> "GET", contentType |-> [type |-> "text/plain", boundary |-> ""],
     payload |-> "wellFormed"]

Requests ==
    [method : {"POST"}, contentType : ContentTypes, payload : Payloads]
    \cup [method : {"GET"},
          contentType : {ct \in ContentTypes : ct.boundary = ""},
          payload : {"wellFormed"}]

\* extractBoundary: the value of boundary=, null ("") when there is none
extractBoundary(contentType) == contentType.boundary

\* parseBody taking the whole body as the only part when the boundary is missing
parseBodyLenient(req) ==
    IF req.payload = "tooLarge" THEN "Request body too large"
    ELSE IF req.contentType.type = "application/json"
    THEN IF req.payload = "malformed" THEN "Invalid JSON format" ELSE "parsed"
    ELSE "parsed"

\* parseBody: "parsed" when its promise resolves, else the message of the
\* error it rejects with.  parseMultipart skips what it cannot read and
\* the fallback branch takes any bytes; parseJSON throws on bad JSON
parseBody(req) ==
    IF req.payload = "tooLarge" THEN "Request body too large"
    ELSE IF req.contentType.type = "multipart/form-data"
    THEN IF extractBoundary(req.contentType) = ""
         THEN "Invalid multipart boundary"
         ELSE "parsed"
    ELSE IF req.contentType.type = "application/json"
    THEN IF req.payload = "malformed" THEN "Invalid JSON format" ELSE "parsed"
    ELSE "parsed"

InitRequest ==
    [phase |-> "idle", chain |-> <<>>, handler |-> "ok", isProduction |-> FALSE,
     request |-> NoRequest, routed |-> FALSE, bodyRead |-> FALSE,
     error |-> "none",
     index |-> 0, frames |-> <<>>, trace |-> <<>>, status |-> 0,
     sender |-> "none", message |-> "none",
     metrics |-> [success |-> 0, errors |-> 0], logged |-> FALSE,
     unhandled |-> 0]

\* the position of the handler in the numbering of the trace
HandlerPos(s) == Len(s.chain) + 1

\* what a frame runs: a middleware, the handler, or, for next(err), the
\* branch of next that throws err
KindOf(s, who) ==
    IF who = 0 THEN "rethrow"
    ELSE IF who <= Len(s.chain) THEN s.chain[who].kind
    ELSE s.handler

\* res.writeHead / res.end by a middleware or the handler
Respond(s, status) ==
    IF s.status # 0 THEN s
    ELSE [s EXCEPT !.status = status, !.sender = "chain"]

\* next(err?) is entered by frame f (0: by executeMiddlewareChain): with err
\* it throws; otherwise it takes middleware[index++], or the handler when
\* index has reached the length of the list
Spawn(s, f, awaited, err) ==
    LET who == IF err THEN 0
               ELSE IF s.index < Len(s.chain) THEN s.index + 1
               ELSE HandlerPos(s)
        advance == IF f = 0 THEN <<>>
                   ELSE <<[ev |-> "advance", who |-> s.frames[f].who]>>
        start == IF err THEN <<>> ELSE <<[ev |-> "start", who |-> who]>>
    IN [s EXCEPT !.index = IF ~err /\ s.index < Len(s.chain) THEN @ + 1 ELSE @,
                 !.frames = Append(@, [who |-> who, parent |-> f,
                                       awaited |-> awaited, pc |-> 1,
                                       st |-> "run", child |-> 0,
                                       outcome |-> "pending"]),
                 !.trace = @ \o advance \o start]

\* the promise of frame f settles; a rejection that nobody awaits is unhandled
Finish(s, f, outcome) ==
    LET fr == s.frames[f]
    IN [s EXCEPT !.frames[f].st = "done",
                 !.frames[f].outcome = outcome,
                 !.unhandled = IF outcome = "err" /\ ~fr.awaited THEN @ + 1 ELSE @,
                 !.trace = IF fr.who = 0 THEN @
                           ELSE Append(@, [ev |-> "finish", who |-> fr.who])]

\* frame f runs synchronously until it awaits or ends; the calls of next it
\* makes run inside it, as the calls of an async function do up to their
\* first await
RECURSIVE Run(_, _)
Run(s, f) ==
    LET fr == s.frames[f]
        op == Script(KindOf(s, fr.who))[fr.pc]
        step == [s EXCEPT !.frames[f].pc = fr.pc + 1]
        g == Len(s.frames) + 1
    IN CASE op \in {"next", "nexterr"} ->
              Run(Run(Spawn(step, f, FALSE, op = "nexterr"), g), f)
         [] op = "anext" ->
              [Run(Spawn(step, f, TRUE, FALSE), g) EXCEPT
                  !.frames[f].st = "awaitNext", !.frames[f].child = g]
         [] op = "wait" -> [step EXCEPT !.frames[f].st = "awaitExt"]
         [] op = "send" ->
              Run(Respond(step, IF fr.who = HandlerPos(s) THEN 200 ELSE 403), f)
         [] op = "throw" -> Finish(s, f, "err")
         [] op = "ret" -> Finish(s, f, "ok")

\* executeMiddlewareChain: index = 0 and the first call of next, awaited
executeMiddlewareChain(s) == Run(Spawn([s EXCEPT !.index = 0], 0, TRUE, FALSE), 1)

\* sendJson by the dispatcher
sendJson(s, status, message) ==
    [s EXCEPT !.status = status, !.sender = "dispatcher", !.message = message]

\* updateRequestMetrics
updateRequestMetrics(s, success) ==
    IF success THEN [s EXCEPT !.metrics.success = @ + 1]
    ELSE [s EXCEPT !.metrics.errors = @ + 1]

\* the finally block of handleRequest
logRequest(s) == [s EXCEPT !.logged = TRUE, !.phase = "done"]

\* the catch block of handleRequest
catchError(s) ==
    LET sent == IF s.status = 0
                THEN sendJson(s, 500, IF s.isProduction THEN "generic" ELSE "own")
                ELSE s
    IN logRequest(updateRequestMetrics(sent, FALSE))

\* handleRequest up to its await of executeMiddlewareChain
handleRequest(s, routeFound, req, chain, handler, isProduction) ==
    LET s0 == [s EXCEPT !.isProduction = isProduction, !.request = req,
                        !.routed = routeFound,
                        !.bodyRead = routeFound /\ req.method \in BodyMethods]
        body == IF req.method \in BodyMethods THEN parseBody(req) ELSE "none"
    IN IF ~routeFound
       THEN logRequest(updateRequestMetrics(sendJson(s0, 404, "not found"), FALSE))
       ELSE IF body \notin {"none", "parsed"}
       THEN catchError([s0 EXCEPT !.error = body])
       ELSE executeMiddlewareChain(
                [s0 EXCEPT !.phase = "chain", !.chain = chain, !.handler = handler])

\* handleRequest after the promise of executeMiddlewareChain has settled
chainSettled(s) ==
    IF s.frames[1].outcome = "ok"
    THEN logRequest(updateRequestMetrics(s, TRUE))
    ELSE catchError(s)

(***************************************************************************)
(* RATE LIMITER (src/unnamed/part_005, class RateLimiter)                  *)
(*                                                                         *)
(* rl is                                                                   *)
(*   store    the Map of the limiter: for an IP that has an entry, its     *)
(*            RateLimitInfo [count, resetTime, blocked]                    *)
(*   now      Date.now(), in units of one millisecond                      *)
(*   calls    the number of requests that have reached the middleware      *)
(*   passed   the requests the middleware handed to next, as [ip, at]      *)
(*   last     the latest request and what the middleware did with it       *)
(***************************************************************************)
\* config.WINDOW_MS and config.MAX_REQUESTS, scaled down
WINDOW_MS == 2
MAX_REQUESTS == 2
\* the clock stops at MaxNow, and at most MaxLimited requests arrive
MaxNow == 5
MaxLimited == 5

IPs == {"a", "b"}

NewWindow(now) == [count |-> 1, resetTime |-> now + WINDOW_MS, blocked |-> FALSE]

\* checkLimit letting a request through when the count has reached the limit
checkLimitOffByOne(store, ip, now) ==
    IF ip \notin DOMAIN store \/ now > store[ip].resetTime
    THEN [store |-> Put(store, ip, NewWindow(now)), allowed |-> TRUE,
          remaining |-> MAX_REQUESTS - 1, reset |-> now + WINDOW_MS]
    ELSE IF store[ip].count > MAX_REQUESTS
    THEN [store |-> [store EXCEPT ![ip].blocked = TRUE], allowed |-> FALSE,
          remaining |-> 0, reset |-> store[ip].resetTime]
    ELSE [store |-> [store EXCEPT ![ip].count = @ + 1], allowed |-> TRUE,
          remaining |-> MAX_REQUESTS - (store[ip].count + 1),
          reset |-> store[ip].resetTime]

\* RateLimiter.checkLimit: the store afterwards and the returned record
checkLimit(store, ip, now) ==
    IF ip \notin DOMAIN store \/ now > store[ip].resetTime
    THEN [store |-> Put(store, ip, NewWindow(now)), allowed |-> TRUE,
          remaining |-> MAX_REQUESTS - 1, reset |-> now + WINDOW_MS]
    ELSE IF store[ip].count >= MAX_REQUESTS
    THEN [store |-> [store EXCEPT ![ip].blocked = TRUE], allowed |-> FALSE,
          remaining |-> 0, reset |-> store[ip].resetTime]
    ELSE [store |-> [store EXCEPT ![ip].count = @ + 1], allowed |-> TRUE,
          remaining |-> MAX_REQUESTS - (store[ip].count + 1),
          reset |-> store[ip].resetTime]

\* Math.ceil(x / 1000) for x >= 0
CeilSeconds(x) == (x + 999) \div 1000

\* the function returned by RateLimiter.middleware(), called for a request
\* of ip: the X-RateLimit headers, and either the 429 answer or next()
middleware(s, ip) ==
    LET limit == checkLimit(s.store, ip, s.now)
        headers == [remaining |-> limit.remaining, reset |-> limit.reset]
        s1 == [s EXCEPT !.store = limit.store, !.calls = @ + 1]
    IN IF ~limit.allowed
       THEN [s1 EXCEPT !.last = [ip |-> ip, at |-> s.now, headers |-> headers,
                                 status |-> 429,
                                 retryAfter |-> CeilSeconds(limit.reset - s.now),
                                 next |-> FALSE]]
       ELSE [s1 EXCEPT !.passed = Append(@, [ip |-> ip, at |-> s.now]),
                       !.last = [ip |-> ip, at |-> s.now, headers |-> headers,
                                 status |-> 0, retryAfter |-> 0, next |-> TRUE]]

\* RateLimiter.cleanup
cleanup(s) ==
    [s EXCEPT !.store =
        Restrict(@, {ip \in DOMAIN @ : ~(s.now > @[ip].resetTime + WINDOW_MS)})]

InitLimiter ==
    [store |-> <<>>, now |-> 0, calls |-> 0, passed |-> <<>>,
     last |-> [ip |-> "none", at |-> 0,
               headers |-> [remaining |-> 0, reset |-> 0],
               status |-> 0, retryAfter |-> 0, next |-> FALSE]]

(***************************************************************************)
(* FILE VALIDATION (FileHandler.validateFile, processFileInWorker and the  *)
(* message handler of file-worker)                                         *)
(*                                                                         *)
(* Two threads run file-worker: "own", created by processFileInWorker for  *)
(* one file, and "pool", a worker of the WorkerManager.  fv is             *)
(*   phase    of validate(): "idle", "worker" (awaiting                    *)
(*            processFileInWorker) or "done"                               *)
(*   file, config   the file and the configuration of the call             *)
(*   own      the thread of processFileInWorker: "none", "starting",       *)
(*            "listening", "failed", "terminated" or "exited"              *)
(*   timer    the 30,000 ms timeout of processFileInWorker is armed        *)
(*   inbox    the messages posted to each thread and not yet handled       *)
(*   outbox   the answers each thread has posted to the main thread        *)
(*   posted   the number of tasks the WorkerManager has posted             *)
(*   result   what validate() resolved with, by tells which listener or    *)
(*            return statement settled it                                  *)
(*   tasks    the answers handleWorkerResponse has received                *)
(***************************************************************************)
MaxPoolTasks == 1

Threads == {"own", "pool"}

\* a file, as far as the checks look at it: size > MAX_FILE_SIZE, mimetype in
\* ALLOWED_MIME_TYPES, the signature check, a pattern of simulateVirusScan
\* in the data, analyzeFile finding it unsafe
Files ==
    [tooLarge : BOOLEAN, mimeAllowed : BOOLEAN, signatureOk : BOOLEAN,
     threat : BOOLEAN, unsafe : BOOLEAN]

Configs == [FILE_HASHING : BOOLEAN, FILE_VIRUS_SCAN : BOOLEAN]

\* FILE_HASHING and FILE_VIRUS_SCAN of the default configuration, which the
\* workers of the pool get in workerData
DefaultConfig == [FILE_HASHING |-> TRUE, FILE_VIRUS_SCAN |-> FALSE]

NoFile ==
    [tooLarge |-> FALSE, mimeAllowed |-> TRUE, signatureOk |-> TRUE,
     threat |-> FALSE, unsafe |-> FALSE]

NoResult == [valid |-> FALSE, error |-> "pending", hash |-> "none"]

\* the handler of parentPort.on("message") in file-worker: the answer posted
fileWorkerAnswer(config, message) ==
    CASE message.type = "health-check" ->
            [success |-> TRUE, hash |-> "none", error |-> "none",
             requestId |-> message.requestId]
      [] message.type = "file-validation" ->
            LET hash == IF config.FILE_HASHING THEN "sha256" ELSE "none"
            IN IF config.FILE_VIRUS_SCAN /\ message.file.threat
               THEN [success |-> FALSE, hash |-> "none",
                     error |-> "File contains malicious content",
                     requestId |-> message.requestId]
               ELSE IF message.file.unsafe
               THEN [success |-> FALSE, hash |-> "none", error |-> "unsafe",
                     requestId |-> message.requestId]
               ELSE [success |-> TRUE, hash |-> hash, error |-> "none",
                     requestId |-> message.requestId]
      [] OTHER ->
            [success |-> FALSE, hash |-> "none", error |-> "Unknown message type",
             requestId |-> message.requestId]

\* processFileInWorker: the thread is created with the file in workerData
\* and the timeout is armed; nothing is posted to the thread
processFileInWorker(s) ==
    [s EXCEPT !.phase = "worker", !.own = "starting", !.timer = TRUE]

\* the promise of processFileInWorker settles and validateFile returns;
\* a promise that has settled stays as it is
settleValidate(s, result, by) ==
    IF s.phase # "worker" THEN s
    ELSE [s EXCEPT !.phase = "done", !.result = result, !.by = by]

\* FileHandler.validateFile up to its first await
validateFile(s, file, config) ==
    LET s0 == [s EXCEPT !.file = file, !.config = config]
        refuse(error) ==
            [s0 EXCEPT !.phase = "done", !.by = "checks",
                       !.result = [valid |-> FALSE, error |-> error, hash |-> "none"]]
    IN IF file.tooLarge THEN refuse("File size exceeds limit")
       ELSE IF ~file.mimeAllowed THEN refuse("File type is not allowed")
       ELSE IF ~file.signatureOk THEN refuse("Invalid file signature")
       ELSE IF config.FILE_HASHING \/ config.FILE_VIRUS_SCAN
       THEN processFileInWorker(s0)
       ELSE [s0 EXCEPT !.phase = "done", !.by = "checks",
                       !.result = [valid |-> TRUE, error |-> "none", hash |-> "none"]]

\* worker.on("message") of processFileInWorker
onWorkerMessage(s, r) ==
    LET s1 == [s EXCEPT !.timer = FALSE, !.own = "terminated"]
    IN IF r.success
       THEN settleValidate(s1, [valid |-> TRUE, error |-> "none", hash |-> r.hash],
                           "message")
       ELSE settleValidate(s1, [valid |-> FALSE, error |-> r.error, hash |-> "none"],
                           "message")

\* the catch of validateFile, after processFileInWorker has rejected
rejectValidate(s, by) ==
    settleValidate(s, [valid |-> FALSE,
                       error |-> "File validation failed in worker thread",
                       hash |-> "none"], by)

InitValidation ==
    [phase |-> "idle", file |-> NoFile,
     config |-> DefaultConfig,
     own |-> "none", timer |-> FALSE,
     inbox |-> [w \in Threads |-> {}], outbox |-> [w \in Threads |-> {}],
     posted |-> 0, result |-> NoResult, by |-> "none", tasks |-> {}]

(***************************************************************************)
(* The initial state and the actions.                                      *)
(***************************************************************************)
Init ==
    /\ wm = InitWM
    /\ life = [w \in 1..NumWorkers |-> "alive"]
    /\ steps = 0
    /\ hc = InitHealth
    /\ factory = InitFactory
    /\ mnt = InitMount
    /\ mp = InitMultipart
    /\ rl = InitLimiter
    /\ fv = InitValidation
    /\ fast = InitFast
    /\ velox = InitVelox
    /\ found = [fast |-> NotFound, velox |-> NotFound]
    /\ rsteps = 0
    /\ rq = InitRequest

\* one more event of the behaviour
Tick ==
    /\ steps < MaxSteps
    /\ steps' = steps + 1
    /\ UNCHANGED <<routerVars, dispatchVars, hc, factory, mnt, mp, rl, fv>>

\* one more event of the behaviour, of the health check
HealthTick ==
    /\ steps < MaxSteps
    /\ steps' = steps + 1
    /\ UNCHANGED <<routerVars, dispatchVars, factory, mnt, mp, rl, fv>>

\* the thread of worker w ends: the messages posted to it are lost
ThreadEnds(s, w) == [s EXCEPT !.inbox = {m \in @ : m.worker # w}]

\* VeloxServer.executeWorkerTask -> WorkerManager.executeTask with a fresh id
ExecuteTask(c) ==
    /\ Tick
    /\ c = Len(wm.promise) + 1
    /\ wm' = executeTask(Begin(wm), c, c)
    /\ UNCHANGED life

\* a task timer fires
TaskTimeout(tm) ==
    /\ Tick
    /\ tm \in wm.timers
    /\ wm' = taskTimeout(Begin(wm), tm)
    /\ UNCHANGED life

\* the live worker w answers the message m posted to it: the 'message' event
WorkerResponse(m, success) ==
    /\ Tick
    /\ m \in wm.inbox
    /\ m.id > 0
    /\ life[m.worker] = "alive"
    /\ wm' = handleWorkerResponse([Begin(wm) EXCEPT !.inbox = @ \ {m}],
                                 m.worker, m.id, success)
    /\ UNCHANGED life

\* worker w throws: the 'error' event; its 'exit' event follows
WorkerError(w) ==
    /\ Tick
    /\ life[w] = "alive"
    /\ wm' = ThreadEnds(restartWorker(Begin(wm), w), w)
    /\ life' = [life EXCEPT ![w] = "errored"]

\* the 'exit' event of worker w with a non-zero code: after its 'error' event
\* or its termination, or on its own
WorkerExit(w) ==
    /\ Tick
    /\ life[w] \in {"errored", "alive"}
    /\ wm' = [ThreadEnds(onExit(Begin(wm), w, 1), w) EXCEPT !.shutdownWait = @ \ {w}]
    /\ life' = [life EXCEPT ![w] = "dead"]

\* a 1000 ms timer of restartWorker fires
RestartTimeout ==
    /\ Tick
    /\ wm.restartTimers > 0
    /\ wm' = restartTimeout(Begin(wm), Len(life) + 1)
    /\ life' = Append(life, "alive")

\* shutdown() is called (SIGTERM, SIGINT or VeloxServer.gracefulShutdown)
ShutdownBegin ==
    /\ Tick
    /\ ~wm.isShuttingDown
    /\ wm' = shutdownBegin(Begin(wm))
    /\ UNCHANGED life

\* worker w handles the shutdown message: process.exit(0)
WorkerShutdownExit(w) ==
    /\ Tick
    /\ w \in wm.shutdownWait
    /\ life[w] = "alive"
    /\ wm' = [ThreadEnds(onExit(Begin(wm), w, 0), w) EXCEPT !.shutdownWait = @ \ {w}]
    /\ life' = [life EXCEPT ![w] = "dead"]

\* the 5000 ms timer of shutdown() fires for worker w: worker.terminate()
ShutdownTimeout(w) ==
    /\ Tick
    /\ w \in wm.shutdownWait
    /\ wm' = [ThreadEnds(Begin(wm), w) EXCEPT !.shutdownWait = @ \ {w}]
    /\ life' = [life EXCEPT ![w] = IF @ = "alive" THEN "errored" ELSE @]

\* shutdown() after its await: the roster is emptied
ShutdownEnd ==
    /\ Tick
    /\ wm.shutdownPhase = "waiting"
    /\ wm.shutdownWait = {}
    /\ wm' = [Begin(wm) EXCEPT !.workers = <<>>, !.shutdownPhase = "done"]
    /\ UNCHANGED life

NextPool ==
    \/ \E c \in Callers : ExecuteTask(c)
    \/ \E tm \in wm.timers : TaskTimeout(tm)
    \/ \E m \in wm.inbox, success \in BOOLEAN : WorkerResponse(m, success)
    \/ \E w \in DOMAIN life : WorkerError(w)
    \/ \E w \in DOMAIN life : WorkerExit(w)
    \/ RestartTimeout
    \/ ShutdownBegin
    \/ \E w \in DOMAIN life : WorkerShutdownExit(w)
    \/ \E w \in DOMAIN life : ShutdownTimeout(w)
    \/ ShutdownEnd

\* healthCheck() is called, once in a behaviour; the probes reach the workers
\* whose thread runs
HealthCheck ==
    /\ HealthTick
    /\ hc.phase = "idle"
    /\ hc' = awaitAll(healthCheckBegin(wm), wm)
    /\ wm' = [Begin(wm) EXCEPT !.inbox = @ \cup
                 {[worker |-> wm.workers[i], id |-> HealthId(i), caller |-> 0] :
                     i \in {j \in 1..Len(wm.workers) : life[wm.workers[j]] = "alive"}}]
    /\ UNCHANGED life

\* a live worker answers a probe: its 'message' event runs handleWorkerResponse
\* and the listeners of healthCheck
ProbeAnswer(m) ==
    /\ HealthTick
    /\ m \in wm.inbox
    /\ m.id < 0
    /\ life[m.worker] = "alive"
    /\ wm' = handleWorkerResponse([Begin(wm) EXCEPT !.inbox = @ \ {m}],
                                 m.worker, m.id, TRUE)
    /\ hc' = awaitAll(messageHandler(hc, m.worker, m.id, TRUE), wm')
    /\ UNCHANGED life

\* the 5000 ms timer of the probe at index i fires
ProbeTimeout(i) ==
    /\ HealthTick
    /\ hc.phase = "waiting"
    /\ i \in 1..Len(hc.probes)
    /\ hc.probes[i].state = "pending"
    /\ hc' = awaitAll([hc EXCEPT !.probes[i].state = "false"], wm)
    /\ wm' = Begin(wm)
    /\ UNCHANGED life

\* the health check of a pool that runs tasks and loses workers
NextHealth ==
    \/ \E c \in Callers : ExecuteTask(c)
    \/ \E tm \in wm.timers : TaskTimeout(tm)
    \/ \E m \in wm.inbox, success \in BOOLEAN : WorkerResponse(m, success)
    \/ \E w \in DOMAIN life : WorkerError(w)
    \/ \E w \in DOMAIN life : WorkerExit(w)
    \/ RestartTimeout
    \/ HealthCheck
    \/ \E m \in wm.inbox : ProbeAnswer(m)
    \/ \E i \in 1..Len(hc.probes) : ProbeTimeout(i)

SpecHealth == Init /\ [][NextHealth]_vars

\* createVeloxServer(options)
CreateVeloxServer(options) ==
    /\ factory.calls < MaxCalls
    /\ factory' = [instance |-> getInstance(factory.instance, options),
                   returned |-> getInstance(factory.instance, options),
                   options |-> options,
                   calls |-> factory.calls + 1]
    /\ UNCHANGED <<wm, life, steps, hc, mnt, mp, rl, fv, routerVars, dispatchVars>>

NextFactory == \E options \in Options : CreateVeloxServer(options)

SpecFactory == Init /\ [][NextFactory]_vars

\* one more call on the router or the server
MountTick ==
    /\ mnt.n < MaxRouterSteps
    /\ UNCHANGED <<wm, life, steps, hc, factory, mp, rl, fv, routerVars, dispatchVars>>

\* new VeloxRouter(prefix)
NewRouter(prefix) ==
    /\ MountTick
    /\ mnt.phase = "new"
    /\ mnt' = [mnt EXCEPT !.router = NewVeloxRouter(prefix),
                          !.phase = "router", !.n = @ + 1]

\* router.use(middleware)
RouterUse ==
    /\ MountTick
    /\ mnt.phase = "router"
    /\ mnt' = [mnt EXCEPT !.router = use(@, mnt.n + 1), !.n = @ + 1]

\* router.get(path, handler, ...middleware), router.post(...): own tells
\* whether a middleware is passed with the route
RouterRegister(method, path, own) ==
    /\ MountTick
    /\ mnt.phase = "router"
    /\ mnt' = [mnt EXCEPT
                 !.router = PrefixedAddRoute(@, method, path, mnt.n + 1),
                 !.registered =
                    {x \in @ : ~(x.method = method /\ x.path = path)}
                    \cup {[method |-> method, path |-> path, handler |-> mnt.n + 1,
                           middleware |->
                              RouteMiddleware(mnt.router,
                                 IF own THEN <<0 - (mnt.n + 1)>> ELSE <<>>)]},
                 !.n = @ + 1]

\* server.mount(basePath, router)
Mount(basePath) ==
    /\ MountTick
    /\ mnt.phase = "router"
    /\ mnt' = [mnt EXCEPT !.server = mount(@, basePath, mnt.router),
                          !.mounted =
                             {[handler |-> x.handler,
                               middleware |-> MountMiddleware(mnt.router, x.middleware)] :
                                 x \in mnt.registered},
                          !.base = basePath,
                          !.phase = "mounted", !.n = @ + 1]

NextMount ==
    \/ \E prefix \in Prefixes : NewRouter(prefix)
    \/ RouterUse
    \/ \E method \in Methods, path \in RouterPaths, own \in BOOLEAN :
          RouterRegister(method, path, own)
    \/ \E basePath \in Prefixes : Mount(basePath)

SpecMount == Init /\ [][NextMount]_vars

\* a POST with Content-Type multipart/form-data; boundary=X arrives
ParseMultipart(kind, content) ==
    /\ mp' = [kind |-> kind, content |-> content,
              body |-> parseMultipart(MultipartBody(kind, content), Boundary)]
    /\ UNCHANGED <<wm, life, steps, hc, factory, mnt, rl, fv, routerVars, dispatchVars>>

NextMultipart ==
    \E kind \in {"file", "field"}, content \in Contents(MaxContentLen) :
        ParseMultipart(kind, content)

SpecMultipart == Init /\ [][NextMultipart]_vars

\* a request of ip reaches the rate limiter's middleware
RateLimited(ip) ==
    /\ rl.calls < MaxLimited
    /\ rl' = middleware(rl, ip)
    /\ UNCHANGED <<wm, life, steps, hc, factory, mnt, mp, fv, routerVars, dispatchVars>>

\* one millisecond passes
ClockAdvance ==
    /\ rl.now < MaxNow
    /\ rl' = [rl EXCEPT !.now = @ + 1]
    /\ UNCHANGED <<wm, life, steps, hc, factory, mnt, mp, fv, routerVars, dispatchVars>>

\* the interval timer of the constructor fires
Cleanup ==
    /\ rl' = cleanup(rl)
    /\ UNCHANGED <<wm, life, steps, hc, factory, mnt, mp, fv, routerVars, dispatchVars>>

NextLimiter ==
    \/ \E ip \in IPs : RateLimited(ip)
    \/ ClockAdvance
    \/ Cleanup

SpecLimiter == Init /\ [][NextLimiter]_vars

ValidationStep ==
    UNCHANGED <<wm, life, steps, hc, factory, mnt, mp, rl, routerVars, dispatchVars>>

\* file.validate() is called for an uploaded file
ValidateFile(file, config) ==
    /\ fv.phase = "idle"
    /\ fv' = validateFile(fv, file, config)
    /\ ValidationStep

\* the thread of processFileInWorker has loaded file-worker: it listens
OwnWorkerStarts ==
    /\ fv.own = "starting"
    /\ fv' = [fv EXCEPT !.own = "listening"]
    /\ ValidationStep

\* WorkerManager.assignTask posts a task to a worker of the pool
PoolTask(type, file) ==
    /\ fv.posted < MaxPoolTasks
    /\ fv' = [fv EXCEPT !.posted = @ + 1,
                        !.inbox["pool"] = @ \cup
                            {[type |-> type, file |-> file, requestId |-> fv.posted + 1]}]
    /\ ValidationStep

\* a thread running file-worker handles a message posted to it
WorkerHandles(w, m) ==
    /\ w = "own" => fv.own = "listening"
    /\ m \in fv.inbox[w]
    /\ fv' = [fv EXCEPT !.inbox[w] = @ \ {m},
                        !.outbox[w] = @ \cup
                            {fileWorkerAnswer(IF w = "own" THEN fv.config
                                              ELSE DefaultConfig, m)}]
    /\ ValidationStep

\* the answer r of thread w is delivered to the main thread: to the listener
\* of processFileInWorker, or to handleWorkerResponse of the WorkerManager
ParentReceives(w, r) ==
    /\ r \in fv.outbox[w]
    /\ fv' = IF w = "own"
             THEN onWorkerMessage([fv EXCEPT !.outbox[w] = @ \ {r}], r)
             ELSE [fv EXCEPT !.outbox[w] = @ \ {r}, !.tasks = @ \cup {r}]
    /\ ValidationStep

\* the 30,000 ms timer of processFileInWorker fires
ValidateTimeout ==
    /\ fv.timer
    /\ fv' = rejectValidate([fv EXCEPT !.timer = FALSE, !.own = "terminated"],
                            "timeout")
    /\ ValidationStep

\* the thread of processFileInWorker fails to load: worker.on("error")
OwnWorkerError ==
    /\ fv.own = "starting"
    /\ fv' = rejectValidate([fv EXCEPT !.timer = FALSE, !.own = "failed"], "error")
    /\ ValidationStep

\* the thread of processFileInWorker has ended after terminate():
\* worker.on("exit") with a code that is not 0
OwnWorkerExit ==
    /\ fv.own \in {"terminated", "failed"}
    /\ fv' = rejectValidate([fv EXCEPT !.timer = FALSE, !.own = "exited"], "exit")
    /\ ValidationStep

NextValidation ==
    \/ \E file \in Files, config \in Configs : ValidateFile(file, config)
    \/ OwnWorkerStarts
    \/ \E type \in {"file-validation", "health-check"}, file \in Files :
          PoolTask(type, file)
    \/ \E w \in Threads : \E m \in fv.inbox[w] : WorkerHandles(w, m)
    \/ \E w \in Threads : \E r \in fv.outbox[w] : ParentReceives(w, r)
    \/ ValidateTimeout
    \/ OwnWorkerError
    \/ OwnWorkerExit

SpecValidation == Init /\ [][NextValidation]_vars

RouterTick ==
    rsteps < MaxRouterSteps /\ rsteps' = rsteps + 1 /\ UNCHANGED <<poolVars, dispatchVars>>

\* a route is registered with both routers; its handler is a fresh one
AddRoute(method, pattern) ==
    /\ RouterTick
    /\ LET handler == rsteps + 1 IN
         /\ fast' = FastAddRoute(fast, method, pattern, handler)
         /\ velox' = VeloxAddRoute(velox, method, pattern, handler)
    /\ UNCHANGED found

\* a request's method and path are resolved by both routers
FindRoute(method, path) ==
    /\ RouterTick
    /\ LET f == FastFindRoute(fast, method, path) IN
         /\ fast' = f.router
         /\ found' = [fast |-> f.result,
                      velox |-> VeloxFindRoute(velox, method, path)]
    /\ UNCHANGED velox

NextRouter ==
    \/ \E method \in Methods, pattern \in Patterns : AddRoute(method, pattern)
    \/ \E method \in Methods, path \in Paths : FindRoute(method, path)

\* a request arrives
StartRequest(routeFound, req, mounted, haltAt, user, handler, isProduction) ==
    /\ rq.phase = "idle"
    /\ rq' = handleRequest(rq, routeFound, req, RouteChain(mounted, haltAt, user),
                           handler, isProduction)
    /\ UNCHANGED <<poolVars, routerVars>>

\* the promise a middleware awaits (await next()) has settled: the
\* middleware continues, or rejects when the promise was rejected
Resume(f) ==
    /\ rq.frames[f].st = "awaitNext"
    /\ rq.frames[rq.frames[f].child].outcome # "pending"
    /\ rq' = IF rq.frames[rq.frames[f].child].outcome = "ok"
             THEN Run([rq EXCEPT !.frames[f].st = "run"], f)
             ELSE Finish(rq, f, "err")
    /\ UNCHANGED <<poolVars, routerVars>>

\* the I/O an async middleware or handler awaits completes
External(f) ==
    /\ rq.frames[f].st = "awaitExt"
    /\ rq' = Run([rq EXCEPT !.frames[f].st = "run"], f)
    /\ UNCHANGED <<poolVars, routerVars>>

\* the await of executeMiddlewareChain in handleRequest returns or throws
ChainSettled ==
    /\ rq.phase = "chain"
    /\ rq.frames[1].outcome # "pending"
    /\ rq' = chainSettled(rq)
    /\ UNCHANGED <<poolVars, routerVars>>

NextDispatch ==
    \/ /\ rq.phase = "idle"
       /\ \E routeFound \in BOOLEAN, req \in Requests,
             mounted \in BOOLEAN, haltAt \in {0} \cup HaltingDefaults,
             user \in UserChains, handler \in HandlerKinds,
             isProduction \in BOOLEAN :
             StartRequest(routeFound, req, mounted, haltAt, user, handler,
                          isProduction)
    \/ \E f \in DOMAIN rq.frames : Resume(f)
    \/ \E f \in DOMAIN rq.frames : External(f)
    \/ ChainSettled

SpecDispatch == Init /\ [][NextDispatch]_vars

SpecRouter == Init /\ [][NextRouter]_vars

SpecPool == Init /\ [][NextPool]_vars

\* timers fire and events are delivered: a task timer, a worker's answer, the
\* exit of a worker that failed or was told to shut down, the timers of
\* restartWorker and of shutdown, and the return of shutdown are not
\* postponed forever
PoolFairness ==
    /\ WF_vars(\E tm \in wm.timers : TaskTimeout(tm))
    /\ WF_vars(\E m \in wm.inbox, success \in BOOLEAN : WorkerResponse(m, success))
    /\ WF_vars(\E w \in DOMAIN life : WorkerExit(w))
    /\ WF_vars(RestartTimeout)
    /\ WF_vars(\E w \in DOMAIN life : WorkerShutdownExit(w))
    /\ WF_vars(\E w \in DOMAIN life : ShutdownTimeout(w))
    /\ WF_vars(ShutdownEnd)

SpecPoolLive == Init /\ [][NextPool]_vars /\ PoolFairness

(***************************************************************************)
(* Claims about the worker pool.                                           *)
(***************************************************************************)
JobCallers(s, w) ==
    {s.activeJobs[id].caller :
        id \in {x \in DOMAIN s.activeJobs : s.activeJobs[x].worker = w}}

Outcome(c, o) == [caller |-> c, outcome |-> o]

\* C3: a submission made while no worker is idle and the queue already holds
\* QueueLimit tasks is rejected at once with the queue-full error and leaves
\* the queue's length unchanged, and the queue never holds more than
\* QueueLimit tasks.
C3_QueueFullRejectsWithoutGrowing ==
    [][/\ Len(wm'.queue) <= QueueLimit
       /\ \A c \in Callers :
            (/\ ExecuteTask(c)
             /\ getAvailableWorker(wm) = NoWorker
             /\ Len(wm.queue) >= QueueLimit)
            => /\ Outcome(c, "QueueFull") \in wm'.settledNow
               /\ Len(wm'.queue) = Len(wm.queue)]_vars

\* C4: when worker w fails (its 'error' event, or its 'exit' event with a
\* non-zero code) while the pool is not shutting down, that one step removes w
\* from the roster, and cancels the timer of, rejects with the
\* worker-restarted error and removes every active job assigned to w; the jobs
\* of the other workers, their timers and their promises stay as they were.
C4_CrashRejectsJobsOfDeadWorker ==
    [][\A w \in DOMAIN life :
         ((WorkerError(w) \/ WorkerExit(w)) /\ ~wm.isShuttingDown)
         => /\ w \notin Range(wm'.workers)
            /\ \A id \in DOMAIN wm.activeJobs :
                 LET job == wm.activeJobs[id] IN
                 IF job.worker = w
                 THEN /\ id \notin DOMAIN wm'.activeJobs
                      /\ \A tm \in wm'.timers : tm.caller # job.caller
                      /\ Outcome(job.caller, "WorkerRestarted") \in wm'.settledNow
                      /\ wm'.promise[job.caller] = "settled"
                 ELSE /\ id \in DOMAIN wm'.activeJobs
                      /\ wm'.activeJobs[id] = job
                      /\ [caller |-> job.caller, id |-> id] \in wm'.timers
                      /\ wm'.promise[job.caller] = "pending"
            /\ \A x \in wm'.settledNow : x.caller \in JobCallers(wm, w)]_vars

\* C4 witness: a crash has just rejected the job of the dead worker while
\* another worker still holds its own job
C4_Witness ==
    /\ \E x \in wm.settledNow : x.outcome = "WorkerRestarted"
    /\ DOMAIN wm.activeJobs # {}
    /\ ~wm.isShuttingDown

\* C5: every crashed worker is replaced by exactly one new worker, so the
\* roster never holds more than NumWorkers workers.
C5_RosterNeverExceedsN == Len(wm.workers) <= NumWorkers

\* C6: when the timer of an assigned task fires, the job is removed and the
\* caller is rejected with the timeout error while the roster, the worker
\* thread and the message posted to it stay as they were; and a response the
\* worker delivers for a task whose caller is already settled settles nothing
\* and changes nothing of the pool (roster, queue, active jobs, timers).
C6_TimeoutKeepsWorkerAndLateResponseIsIgnored ==
    [][/\ \A tm \in wm.timers :
            TaskTimeout(tm)
            => /\ tm.id \notin DOMAIN wm'.activeJobs
               /\ wm'.settledNow = {Outcome(tm.caller, "Timeout")}
               /\ wm'.promise[tm.caller] = "settled"
               /\ wm'.workers = wm.workers
               /\ wm'.inbox = wm.inbox
               /\ wm'.queue = wm.queue
       /\ \A m \in wm.inbox, success \in BOOLEAN :
            (WorkerResponse(m, success) /\ wm.promise[m.caller] = "settled")
            => /\ wm'.settledNow = {}
               /\ wm'.promise = wm.promise
               /\ wm'.workers = wm.workers
               /\ wm'.queue = wm.queue
               /\ wm'.activeJobs = wm.activeJobs
               /\ wm'.timers = wm.timers]_vars

\* C6 witness: a task has just timed out, its message is still with its
\* worker, which is alive and in the roster
C6_Witness ==
    \E m \in wm.inbox :
        /\ Outcome(m.caller, "Timeout") \in wm.settledNow
        /\ m.worker \in Range(wm.workers)
        /\ life[m.worker] = "alive"

\* C7: a response whose requestId matches an active job cancels the job's
\* timer, removes the job, resolves the caller when success is true and rejects
\* it otherwise, and then, if the queue is non-empty, assigns the head of the
\* queue to the worker that answered.
C7_ResponseSettlesAndDrainsOntoFreedWorker ==
    [][\A m \in wm.inbox, success \in BOOLEAN :
         (WorkerResponse(m, success) /\ m.id \in DOMAIN wm.activeJobs)
         => LET job == wm.activeJobs[m.id] IN
            /\ \A tm \in wm'.timers : tm.caller # job.caller
            /\ Outcome(job.caller, IF success THEN "resolved" ELSE "WorkerError")
                  \in wm'.settledNow
            /\ wm.queue # <<>>
               => /\ Head(wm.queue).id \in DOMAIN wm'.activeJobs
                  /\ wm'.activeJobs[Head(wm.queue).id].worker = m.worker]_vars

\* C8: a task is posted only to a worker no active job references, so no
\* worker is referenced by two jobs and at most NumWorkers jobs are in flight:
\* the task after the NumWorkers-th waits for one of them to end.
C8_AtMostNJobsInFlight ==
    /\ \A id1, id2 \in DOMAIN wm.activeJobs :
         wm.activeJobs[id1].worker = wm.activeJobs[id2].worker => id1 = id2
    /\ Cardinality(DOMAIN wm.activeJobs) <= NumWorkers

(***************************************************************************)
(* Claims about the routers.                                               *)
(***************************************************************************)
\* C1: whenever a static route is registered for (method, path), resolving
\* (method, path) returns the handler of that static route, in FastRouter and
\* in VeloxRouter, whatever registrations and resolutions came before and
\* whatever dynamic patterns match the path.
C1_StaticRouteWins ==
    [][\A method \in Methods, path \in Paths :
         (FindRoute(method, path) /\ <<method, path>> \in DOMAIN fast.staticRoutes)
         => /\ found'.fast.handler = fast.staticRoutes[<<method, path>>]
            /\ found'.velox.handler = fast.staticRoutes[<<method, path>>]]_vars

(***************************************************************************)
(* Claims about the dispatcher and the middleware chain.                   *)
(***************************************************************************)
HasDefaults(s) ==
    /\ Len(s.chain) >= Len(DefaultMiddleware)
    /\ \A i \in 1..Len(DefaultMiddleware) : s.chain[i].name = DefaultMiddleware[i]

SomeError(s) == \E f \in DOMAIN s.frames : s.frames[f].outcome = "err"

\* C2: with the default middleware installed, once handleRequest has
\* returned, an error thrown or rejected by a middleware or by the handler
\* has been counted as an error and not as a success, and the response is the
\* dispatcher's 500 envelope unless the chain had written a response before;
\* the envelope's message is the error's own message in development and the
\* generic one in production.
C2_ErrorReachesCatch ==
    (rq.phase = "done" /\ HasDefaults(rq) /\ SomeError(rq))
    => /\ rq.metrics.errors = 1
       /\ rq.metrics.success = 0
       /\ rq.sender = "chain" \/ rq.status = 500
       /\ rq.status = 500 =>
            rq.message = IF rq.isProduction THEN "generic" ELSE "own"

\* C9: in the trace of one request the middleware start in list order,
\* middleware i+1 starts only after middleware i has invoked advance, and the
\* handler starts only after the last middleware has invoked advance.
C9_MiddlewareStartInOrderAfterAdvance ==
    /\ \A p, q \in DOMAIN rq.trace :
         (p < q /\ rq.trace[p].ev = "start" /\ rq.trace[q].ev = "start")
         => rq.trace[p].who <= rq.trace[q].who
    /\ \A q \in DOMAIN rq.trace :
         (rq.trace[q].ev = "start" /\ rq.trace[q].who > 1)
         => \E p \in 1..(q - 1) :
               /\ rq.trace[p].ev = "advance"
               /\ rq.trace[p].who = rq.trace[q].who - 1

\* C10: the promise of executeMiddlewareChain settles only after every
\* middleware and handler that was started has completed, an error of any of
\* them rejects it, and the dispatcher records success and logs the request
\* only after the handler has finished.
C10_ChainSettlesAfterDownstream ==
    /\ (rq.phase # "idle" /\ rq.frames # <<>> /\ rq.frames[1].outcome # "pending")
       => /\ \A f \in DOMAIN rq.frames : rq.frames[f].outcome # "pending"
          /\ SomeError(rq) => rq.frames[1].outcome = "err"
    /\ (rq.logged \/ rq.metrics.success > 0)
       => \A f \in DOMAIN rq.frames :
             rq.frames[f].who = HandlerPos(rq) => rq.frames[f].outcome # "pending"

\* the middleware at position i has returned normally and never invoked advance
ReturnedWithoutAdvance(s, i) ==
    /\ \E f \in DOMAIN s.frames : s.frames[f].who = i /\ s.frames[f].outcome = "ok"
    /\ \A p \in DOMAIN s.trace : ~(s.trace[p].ev = "advance" /\ s.trace[p].who = i)

\* C11: if a middleware has completed without invoking advance, no later
\* middleware and not the handler has been started for the request, and the
\* chain's promise is not rejected, so that the dispatcher sends no 500.
C11_EarlyExitStopsTheChain ==
    \A i \in 1..Len(rq.chain) :
        ReturnedWithoutAdvance(rq, i)
        => /\ \A p \in DOMAIN rq.trace :
                ~(rq.trace[p].ev = "start" /\ rq.trace[p].who > i)
           /\ rq.frames[1].outcome # "err"
           /\ rq.status # 500

\* C12: within one chain execution every middleware is started at most once
\* and the handler is started at most once, however often advance is invoked.
C12_AdvanceIsSingleUse ==
    \A p, q \in DOMAIN rq.trace :
        (/\ rq.trace[p].ev = "start"
         /\ rq.trace[q].ev = "start"
         /\ rq.trace[p].who = rq.trace[q].who)
        => p = q

CacheValues(r) == {r.routeCache[k] : k \in DOMAIN r.routeCache}

\* C13: after any sequence of addRoute and findRoute calls the match cache of
\* FastRouter holds at most CacheLimit entries.
C13_CacheNeverExceedsLimit == Cardinality(DOMAIN fast.routeCache) <= CacheLimit

\* C13 witness: the cache is full and a further key has been resolved to a
\* route that the cache does not hold
C13_Witness ==
    /\ Cardinality(DOMAIN fast.routeCache) = CacheLimit
    /\ found.fast # NotFound
    /\ found.fast \notin CacheValues(fast)

\* C14: a resolution by FastRouter leaves the route tables unchanged, keeps
\* every cache entry as it was and adds at most the entry of its own key; it
\* leaves the cache unchanged when the cache is full (a key the cache does not
\* hold is then resolved to the route an empty cache would give) and when the
\* result is not-found.
C14_FindRouteOnlyAddsItsOwnCacheEntry ==
    [][\A method \in Methods, path \in Paths :
         FindRoute(method, path)
         => LET key == <<method, path>>
                full == Cardinality(DOMAIN fast.routeCache) >= CacheLimit
                fresh == FastFindRoute([fast EXCEPT !.routeCache = <<>>],
                                       method, path).result
            IN  /\ fast'.staticRoutes = fast.staticRoutes
                /\ fast'.dynamicRoutes = fast.dynamicRoutes
                /\ \A k \in DOMAIN fast.routeCache :
                     /\ k \in DOMAIN fast'.routeCache
                     /\ fast'.routeCache[k] = fast.routeCache[k]
                /\ DOMAIN fast'.routeCache \subseteq DOMAIN fast.routeCache \cup {key}
                /\ key \in DOMAIN fast'.routeCache
                   => fast'.routeCache[key] = found'.fast
                /\ full => /\ fast'.routeCache = fast.routeCache
                           /\ key \notin DOMAIN fast.routeCache
                              => found'.fast = fresh
                /\ found'.fast = NotFound => fast'.routeCache = fast.routeCache]_vars

\* C14 witness: a resolution has added the entry of its own key to a cache
\* that held another entry, with a static route registered
C14_Witness ==
    /\ Cardinality(DOMAIN fast.routeCache) >= 2
    /\ found.fast \in CacheValues(fast)
    /\ DOMAIN fast.staticRoutes # {}

\* the registrations of dynamic patterns for method that match path, in the
\* order of registration (FastRouter keeps every one of them in that order)
MatchingRegistrations(method, path) ==
    SelectSeq(fast.dynamicRoutes[method], LAMBDA e : Match(e.pattern, path).ok)

\* the handlers registered with pattern for method
HandlersOf(method, pattern) ==
    {e.handler : e \in {x \in Range(fast.dynamicRoutes[method]) : x.pattern = pattern}}

\* C15: when several dynamic patterns registered for a method match a path
\* and no static route does, every resolution of (method, path) by FastRouter
\* and by VeloxRouter returns a handler and the parameters of the pattern that
\* was registered first among them.
C15_FirstRegisteredPatternWins ==
    [][\A method \in Methods, path \in Paths :
         (/\ FindRoute(method, path)
          /\ <<method, path>> \notin DOMAIN fast.staticRoutes
          /\ Cardinality({e.pattern : e \in Range(MatchingRegistrations(method, path))}) >= 2)
         => LET first == Head(MatchingRegistrations(method, path)).pattern
                params == Match(first, path).params
            IN  /\ found'.fast.handler \in HandlersOf(method, first)
                /\ found'.fast.params = params
                /\ found'.velox.handler \in HandlersOf(method, first)
                /\ found'.velox.params = params]_vars

\* C15 witness: a path that two registered patterns match and no static route
\* does has been resolved, by both routers, to the pattern registered first
C15_Witness ==
    \E method \in Methods, path \in Paths :
        /\ <<method, path>> \notin DOMAIN fast.staticRoutes
        /\ Cardinality({e.pattern : e \in Range(MatchingRegistrations(method, path))}) >= 2
        /\ <<method, path>> \in DOMAIN fast.routeCache
        /\ found.fast = fast.routeCache[<<method, path>>]
        /\ found.fast.handler = Head(MatchingRegistrations(method, path)).handler
        /\ found.velox = found.fast

\* C16: registering a static method and path that is already registered is
\* accepted, and from then on resolving that method and path returns the
\* handler of the second registration, in FastRouter and in VeloxRouter,
\* whatever was resolved between the two registrations.
C16_LastRegistrationWins ==
    [][\A method \in Methods, pattern \in Patterns :
         (/\ AddRoute(method, pattern)
          /\ <<method, pattern>> \in DOMAIN fast.staticRoutes)
         => /\ fast'.staticRoutes[<<method, pattern>>] = rsteps + 1
            /\ FastFindRoute(fast', method, pattern).result.handler = rsteps + 1
            /\ VeloxFindRoute(velox', method, pattern).handler = rsteps + 1]_vars

(***************************************************************************)
(* Further claims about the worker pool.                                   *)
(***************************************************************************)
\* C17: shutdown() rejects every in-flight job and every queued task that
\* still waits with the shutdown error and cancels their timers, and sends
\* the shutdown message to each worker of the roster; when shutdown() returns
\* (after each worker has exited or has been terminated on its 5000 ms
\* timer) the queue, the active-job map and the roster are empty.
C17_ShutdownRejectsAllAndEmptiesThePool ==
    [][/\ ShutdownBegin
          => /\ \A id \in DOMAIN wm.activeJobs :
                  /\ Outcome(wm.activeJobs[id].caller, "Shutdown") \in wm'.settledNow
                  /\ \A tm \in wm'.timers : tm.id # id
             /\ \A i \in 1..Len(wm.queue) :
                  wm.promise[wm.queue[i].caller] = "pending"
                  => Outcome(wm.queue[i].caller, "Shutdown") \in wm'.settledNow
             /\ wm'.timers = {}
             /\ wm'.shutdownWait = Range(wm.workers)
       /\ ShutdownEnd
          => /\ wm'.queue = <<>>
             /\ wm'.activeJobs = <<>>
             /\ wm'.workers = <<>>]_vars

\* C18: the active-job map holds one assignment per task id and every worker
\* is referenced by at most one active job, and a submission leaves every job
\* that is pending as it was: its entry, its timer and its pending promise.
C18_OneAssignmentPerIdAndWorker ==
    [][/\ \A id1, id2 \in DOMAIN wm'.activeJobs :
            wm'.activeJobs[id1].worker = wm'.activeJobs[id2].worker => id1 = id2
       /\ \A c \in Callers :
            ExecuteTask(c)
            => \A id \in DOMAIN wm.activeJobs :
                 /\ id \in DOMAIN wm'.activeJobs
                 /\ wm'.activeJobs[id] = wm.activeJobs[id]
                 /\ [caller |-> wm.activeJobs[id].caller, id |-> id] \in wm.timers
                    => [caller |-> wm.activeJobs[id].caller, id |-> id] \in wm'.timers
                 /\ wm'.promise[wm.activeJobs[id].caller] = wm.promise[wm.activeJobs[id].caller]]_vars

\* C18 witness: a task has been submitted and queued while two jobs are
\* pending on two different workers
C18_Witness ==
    /\ Cardinality(DOMAIN wm.activeJobs) >= 2
    /\ Len(wm.queue) >= 1
    /\ wm.settledNow = {}

\* C19: the event that settles a task's caller destroys its pending job and
\* its timer in the same step, so that every active job, every timer and every
\* queued task with callbacks belongs to a caller that is still pending and a
\* later event for the task finds nothing to settle; such an event changes no
\* other job.
C19_SingleSettlement ==
    [][/\ \A x \in wm'.settledNow :
            /\ x.caller \in DOMAIN wm.promise => wm.promise[x.caller] = "pending"
            /\ \A id \in DOMAIN wm'.activeJobs : wm'.activeJobs[id].caller # x.caller
            /\ \A tm \in wm'.timers : tm.caller # x.caller
       /\ \A id \in DOMAIN wm'.activeJobs :
            wm'.promise[wm'.activeJobs[id].caller] = "pending"
       /\ \A tm \in wm'.timers :
            /\ tm.id \in DOMAIN wm'.activeJobs
            /\ wm'.activeJobs[tm.id].caller = tm.caller
       /\ \A i \in 1..Len(wm'.queue) :
            wm'.queue[i].cb => wm'.promise[wm'.queue[i].caller] = "pending"
       /\ \A m \in wm.inbox, success \in BOOLEAN :
            (WorkerResponse(m, success) /\ wm.promise[m.caller] = "settled")
            => wm'.activeJobs = wm.activeJobs /\ wm'.settledNow = {}]_vars

\* C19 witness: the answer to a task whose caller is already settled is still
\* to come from a live worker while another job is pending
C19_Witness ==
    \E m \in wm.inbox :
        /\ wm.promise[m.caller] = "settled"
        /\ life[m.worker] = "alive"
        /\ \E id \in DOMAIN wm.activeJobs : id # m.id
        /\ wm.settledNow = {}

(***************************************************************************)
(* C20: a worker message that matches no pending job is dropped.  In every *)
(* step in which the pool receives the answer to a health-check probe, or  *)
(* an answer whose requestId is not in the active-job map (the answer to a *)
(* job that timed out), no caller is settled, no timer is cancelled, and   *)
(* the active-job map, the queue and the roster stay as they were; and in  *)
(* every state the pool reaches, a message without requestId leaves the    *)
(* pool as it is.                                                          *)
(***************************************************************************)
Dropped ==
    /\ wm'.settledNow = {}
    /\ wm'.promise = wm.promise
    /\ wm'.timers = wm.timers
    /\ wm'.activeJobs = wm.activeJobs
    /\ wm'.queue = wm.queue
    /\ wm'.workers = wm.workers

C20_UnmatchedResponseIsDropped ==
    [][ /\ \A m \in wm.inbox :
            /\ ProbeAnswer(m) => Dropped
            /\ \A success \in BOOLEAN :
                  (WorkerResponse(m, success) /\ m.id \notin DOMAIN wm.activeJobs)
                      => Dropped
        /\ \A w \in Range(wm'.workers), success \in BOOLEAN :
              handleWorkerResponse(Begin(wm'), w, 0, success) = Begin(wm')
      ]_vars

\* a probe was answered while a job waited in the queue, and the late answer
\* to a job that timed out has been received: its worker is idle and has no
\* message left to send
C20_Witness ==
    /\ \E i \in 1..Len(hc.probes) : hc.probes[i].state = "true"
    /\ wm.activeJobs # << >>
    /\ wm.queue # << >>
    /\ \E i \in 1..Len(wm.workers) :
          /\ ~IsWorkerBusy(wm, wm.workers[i])
          /\ life[wm.workers[i]] = "alive"
          /\ \A m \in wm.inbox : m.worker # wm.workers[i]

(***************************************************************************)
(* C21: the queue drains first in, first out.  The tasks of the queue are  *)
(* in the order of their submission; in every step the tasks that leave    *)
(* the queue are its first ones (what is left is the rest of the old       *)
(* queue, with the task of an ExecuteTask step at its end), so that a      *)
(* waiting task that is assigned in a step has no task queued before it    *)
(* that still waits after the step.                                        *)
(***************************************************************************)
Waiting(s) == {i \in 1..Len(s.queue) : s.queue[i].cb}

AssignedFromQueue(i) ==
    /\ i \in Waiting(wm)
    /\ wm.queue[i].id \in DOMAIN wm'.activeJobs

C21_QueueDrainsInOrder ==
    [][ /\ \A i, j \in 1..Len(wm'.queue) :
              i < j => wm'.queue[i].caller < wm'.queue[j].caller
        /\ \E k \in 0..Len(wm.queue) :
              LET rest == SubSeq(wm.queue, k + 1, Len(wm.queue))
              IN  \/ wm'.queue = rest
                  \/ /\ Len(wm'.queue) = Len(rest) + 1
                     /\ SubSeq(wm'.queue, 1, Len(rest)) = rest
                     /\ \E c \in Callers : ExecuteTask(c)
        /\ \A i \in 1..Len(wm.queue) :
              AssignedFromQueue(i) =>
                 \A j \in 1..(i - 1) :
                    j \in Waiting(wm) =>
                       \A n \in 1..Len(wm'.queue) : wm'.queue[n].id # wm.queue[j].id
      ]_vars

\* NumWorkers + 2 tasks were submitted while no worker became idle, so that
\* two of them were queued; the step before this state, the only one that
\* was not a submission, freed a worker: the task queued first runs and the
\* task queued second still waits
C21_Witness ==
    /\ Len(wm.promise) = NumWorkers + 2
    /\ steps = Len(wm.promise) + 1
    /\ wm.settledNow # {}
    /\ \E id \in DOMAIN wm.activeJobs : wm.activeJobs[id].caller = NumWorkers + 1
    /\ Waiting(wm) = {1}
    /\ wm.queue[1].caller = NumWorkers + 2

(***************************************************************************)
(* Claims about the parsing of the request body.                           *)
(***************************************************************************)
MissingBoundary(req) ==
    /\ req.method \in BodyMethods
    /\ req.contentType.type = "multipart/form-data"
    /\ req.contentType.boundary = ""

C23_MalformedBodyAnswered400 ==
    (rq.phase = "done"
        /\ rq.error \in {"Invalid multipart boundary", "Invalid JSON format"}) =>
        /\ rq.status = 400
        /\ rq.sender = "dispatcher"

(***************************************************************************)
(* C24: healthCheck probes every worker of the roster and, when it         *)
(* returns, its result is true exactly when every probed worker answered   *)
(* its probe with success before the probe's timer fired; an unanswered    *)
(* probe makes the result false; and a check that waits can always go on   *)
(* (each pending probe has its timer).                                     *)
(***************************************************************************)
AllAnswered(h) == \A i \in 1..Len(h.probes) : h.probes[i].state = "true"

C24_HealthyIffEveryWorkerAnswered ==
    [][ /\ HealthCheck =>
              /\ Len(hc'.probes) = Len(wm.workers)
              /\ \A i \in 1..Len(wm.workers) : hc'.probes[i].worker = wm.workers[i]
        /\ (hc.phase # "done" /\ hc'.phase = "done") =>
              (hc'.result = "healthy" <=> AllAnswered(hc'))
        /\ hc'.phase = "waiting" =>
              \E i \in 1..Len(hc'.probes) : hc'.probes[i].state = "pending"
      ]_vars

(***************************************************************************)
(* C25: every call of createVeloxServer with port, host and uploadDir      *)
(* given returns a server with that port, host and uploadDir, also when a  *)
(* server was created before.                                              *)
(***************************************************************************)
C25_ServerHasTheOptionsOfItsCall ==
    (/\ factory.calls > 0
     /\ factory.options.port # 0
     /\ factory.options.host # ""
     /\ factory.options.uploadDir # "") =>
        factory.returned = factory.options

(***************************************************************************)
(* C26: getRoutes() returns exactly one entry for each distinct (method,   *)
(* path) pair registered.  It is empty at first; a registration adds the   *)
(* entry of its pair when the list does not hold it and adds nothing when  *)
(* it does; a resolution changes nothing; no entry occurs twice.           *)
(***************************************************************************)
Listed(r) == Range(getRoutes(r))

C26_OneEntryPerRegisteredPair ==
    [][ /\ rsteps = 0 => getRoutes(velox) = <<>>
        /\ \A method \in Methods, pattern \in Patterns :
              AddRoute(method, pattern) =>
                 /\ Listed(velox') =
                       Listed(velox) \cup {[method |-> method, path |-> pattern]}
                 /\ Len(getRoutes(velox')) =
                       Len(getRoutes(velox))
                       + (IF [method |-> method, path |-> pattern] \in Listed(velox)
                          THEN 0 ELSE 1)
        /\ \A method \in Methods, path \in Paths :
              FindRoute(method, path) => getRoutes(velox') = getRoutes(velox)
        /\ Len(getRoutes(velox')) = Cardinality(Listed(velox'))
      ]_vars

\* a pair was registered again after a later pair, and one path is
\* registered under every method
C26_Witness ==
    /\ \E method \in Methods :
          \E i \in 1..(Len(velox.routes[method]) - 1) :
             velox.routes[method][i].handler > velox.routes[method][i + 1].handler
    /\ \E pattern \in Patterns :
          \A method \in Methods :
             [method |-> method, path |-> pattern] \in Listed(velox)
    /\ Len(getRoutes(velox)) = 3

(***************************************************************************)
(* C28: for a router created with prefix P, a route registered on it with  *)
(* path p and the router mounted with server.mount(P, router), the request *)
(* path P + p resolves to the handler of that route.                       *)
(***************************************************************************)
C28_MountedRouteResolvesUnderPrefix ==
    (mnt.phase = "mounted" /\ mnt.router.prefix # <<>>
        /\ mnt.base = mnt.router.prefix) =>
        \A x \in mnt.registered :
           VeloxFindRoute(mnt.server, x.method, mnt.router.prefix \o x.path).handler
              = x.handler

(***************************************************************************)
(* C27: for a file part the stored content is the bytes of the part after  *)
(* the header terminator without the one CRLF before the next delimiter,   *)
(* i.e. the content as the client sent it: CR and LF bytes of the content, *)
(* inside it or at its end, are kept.                                      *)
(***************************************************************************)
C27_FileContentKeepsItsOwnCRLF ==
    mp.kind = "file" => mp.body.files = <<mp.content>>

(***************************************************************************)
(* C29: once shutdown has begun the pool accepts no task: a task submitted *)
(* during or after shutdown is not posted to a worker, is not left in the  *)
(* queue, and its caller is rejected in the submission.                    *)
(***************************************************************************)
C29_NoTaskAcceptedDuringShutdown ==
    [][\A c \in Callers :
          (ExecuteTask(c) /\ wm.isShuttingDown) =>
             /\ wm'.inbox = wm.inbox
             /\ wm'.activeJobs = wm.activeJobs
             /\ wm'.queue = wm.queue
             /\ \E x \in wm'.settledNow : x.caller = c /\ x.outcome # "resolved"
      ]_vars

(***************************************************************************)
(* C30: when timers fire and events are delivered, every task passed to    *)
(* executeTask is eventually settled.  A behaviour of the model ends when  *)
(* it has used its MaxSteps events; the property is about the tasks of the *)
(* behaviours that end earlier, with nothing left to happen.               *)
(***************************************************************************)
C30_EverySubmissionSettles ==
    \A c \in Callers :
       (c <= Len(wm.promise) /\ wm.promise[c] = "pending")
          ~> ((c <= Len(wm.promise) /\ wm.promise[c] = "settled")
              \/ steps = MaxSteps)

(***************************************************************************)
(* C31: after every pool event has been handled, the queue holds a task    *)
(* that awaits assignment only if every worker of the roster is referenced *)
(* by an active job.                                                       *)
(***************************************************************************)
C31_NoIdleWorkerWithWaitingWork ==
    Waiting(wm) # {} =>
        \A i \in 1..Len(wm.workers) : IsWorkerBusy(wm, wm.workers[i])

(***************************************************************************)
(* C32: the pool never posts a task message to a worker that has received  *)
(* an earlier task message it has not answered yet: no worker has two task *)
(* messages to answer.                                                     *)
(***************************************************************************)
C32_OneOutstandingTaskPerWorker ==
    \A m1, m2 \in wm.inbox :
        (m1.id > 0 /\ m2.id > 0 /\ m1.worker = m2.worker) => m1 = m2

(***************************************************************************)
(* C33: no worker is spawned once shutdown has begun: from then on no step *)
(* creates a worker thread or adds a worker to the roster, and the roster  *)
(* is empty in every state after shutdown has returned.                    *)
(***************************************************************************)
C33_NoWorkerSpawnedDuringShutdown ==
    [][ /\ wm.isShuttingDown =>
              /\ Len(life') = Len(life)
              /\ Range(wm'.workers) \subseteq Range(wm.workers)
        /\ wm'.shutdownPhase = "done" => wm'.workers = <<>>
      ]_vars

(***************************************************************************)
(* C34: every request whose route handler is started has passed the six    *)
(* default middleware first: the chain of its route begins with them, in   *)
(* the order of their installation, and each of them has started and       *)
(* advanced, one after the other, before the handler starts.               *)
(***************************************************************************)
HandlerStarts(s) ==
    {q \in DOMAIN s.trace : s.trace[q] = [ev |-> "start", who |-> HandlerPos(s)]}

PassedBefore(s, i, q) ==
    \E p1, p2 \in 1..(q - 1) :
        /\ p1 < p2
        /\ s.trace[p1] = [ev |-> "start", who |-> i]
        /\ s.trace[p2] = [ev |-> "advance", who |-> i]
        /\ i > 1 => \E p0 \in 1..(p1 - 1) : s.trace[p0] = [ev |-> "advance", who |-> i - 1]

C34_HandlerOnlyAfterDefaultChain ==
    \A q \in HandlerStarts(rq) :
        /\ HasDefaults(rq)
        /\ \A i \in 1..Len(DefaultMiddleware) : PassedBefore(rq, i, q)

(***************************************************************************)
(* C35: the middleware list of a route attached with mount(), which one    *)
(* request executes in list order before the handler, holds each           *)
(* router-level middleware of the sub-router at most once, in the order of *)
(* their registration, followed by the route's own middleware.             *)
(***************************************************************************)
C35_MountedChainRunsRouterMiddlewareOnce ==
    \A route \in mnt.mounted :
        LET chain == route.middleware
            level == SelectSeq(chain, LAMBDA x : x > 0)
            own == SelectSeq(chain, LAMBDA x : x < 0)
        IN  /\ chain = level \o own
            /\ \A i, j \in 1..Len(level) : i < j => level[i] < level[j]

(***************************************************************************)
(* C36: a request that the rate limiter or the request size limit rejects  *)
(* (the middleware was started and answered without calling next) never    *)
(* has its body read and parsed: the security middleware come before the   *)
(* body parsing in the pipeline.                                           *)
(***************************************************************************)
RejectedBy(s, name) ==
    \E i \in 1..Len(s.chain) :
        /\ s.chain[i].name = name
        /\ s.chain[i].kind = "halt"
        /\ \E q \in DOMAIN s.trace : s.trace[q] = [ev |-> "start", who |-> i]

C36_RejectedRequestBodyNeverRead ==
    (RejectedBy(rq, "rateLimiter") \/ RejectedBy(rq, "requestSizeLimit")) =>
        ~rq.bodyRead

(***************************************************************************)
(* C37: for each client IP, of the requests that arrive within one window  *)
(* (from the request that opened it up to its reset time) at most          *)
(* MAX_REQUESTS are passed on to next, and the stored count is their       *)
(* number and never exceeds MAX_REQUESTS; a request is refused only when   *)
(* the window is full, and then it is answered 429 with remaining 0        *)
(* without next being called; a request that arrives after the reset time  *)
(* of its IP's window opens a new window with count 1 and is passed on.    *)
(***************************************************************************)
PassedInWindow(s, ip) ==
    {i \in 1..Len(s.passed) :
        /\ s.passed[i].ip = ip
        /\ s.passed[i].at >= s.store[ip].resetTime - WINDOW_MS
        /\ s.passed[i].at <= s.store[ip].resetTime}

Refused(s) == s.calls > 0 /\ ~s.last.next

WindowLimit ==
    \A ip \in DOMAIN rl.store :
        /\ rl.store[ip].count = Cardinality(PassedInWindow(rl, ip))
        /\ rl.store[ip].count <= MAX_REQUESTS

WindowFull(s, ip) ==
    /\ ip \in DOMAIN s.store
    /\ s.now <= s.store[ip].resetTime
    /\ s.store[ip].count = MAX_REQUESTS

RefusedOnlyWhenFull ==
    \A ip \in IPs :
        RateLimited(ip) =>
            /\ rl'.last.next = ~WindowFull(rl, ip)
            /\ WindowFull(rl, ip) =>
                  /\ rl'.last.status = 429
                  /\ rl'.last.headers.remaining = 0
                  /\ rl'.passed = rl.passed
                  /\ rl'.store[ip].count = MAX_REQUESTS
            /\ ~WindowFull(rl, ip) =>
                  /\ rl'.last.status = 0
                  /\ rl'.passed = Append(rl.passed, [ip |-> ip, at |-> rl.now])

NewWindowAfterReset ==
    \A ip \in IPs :
        (RateLimited(ip) /\ ip \in DOMAIN rl.store /\ rl.now > rl.store[ip].resetTime)
            => /\ rl'.store[ip] = NewWindow(rl.now)
               /\ rl'.last.next
               /\ rl'.last.headers.remaining = MAX_REQUESTS - 1

C37_RateLimiterWindow ==
    []WindowLimit /\ [][RefusedOnlyWhenFull /\ NewWindowAfterReset]_vars

\* the limit of one IP is used up and a further request was refused, and a
\* later request of the same IP has opened a new window
C37_Witness ==
    /\ \E ip \in DOMAIN rl.store :
          /\ rl.store[ip].blocked
          /\ rl.store[ip].count = MAX_REQUESTS
          /\ Refused(rl) /\ rl.last.ip = ip
    /\ \E i \in 1..Len(rl.passed) :
          /\ rl.passed[i].ip = rl.last.ip
          /\ rl.passed[i].at + WINDOW_MS < rl.store[rl.last.ip].resetTime - WINDOW_MS

(***************************************************************************)
(* C38: when validate() of a file that passes the size, MIME-type and      *)
(* signature checks, with FILE_HASHING or FILE_VIRUS_SCAN enabled and a    *)
(* worker thread that has started without failing, has resolved, it has    *)
(* resolved in the listener of the worker's answer and not by the 30,000   *)
(* ms timeout, with valid and the hash of the answer.                      *)
(***************************************************************************)
PassesChecks(file) == ~file.tooLarge /\ file.mimeAllowed /\ file.signatureOk

NeedsWorker(config) == config.FILE_HASHING \/ config.FILE_VIRUS_SCAN

C38_ValidateResolvesFromWorkerAnswer ==
    (/\ fv.phase = "done"
     /\ PassesChecks(fv.file)
     /\ NeedsWorker(fv.config)
     /\ fv.own # "failed")
        => /\ fv.by = "message"
           /\ fv.result.valid => fv.result.error = "none"

====
